---- MODULE Spec2Model ----
(***************************************************************************)
(* Model of the bookmark manager (src/src/bookmark): the Bookmark record   *)
(* codec (construction, normalization, to_line, from_line) and the         *)
(* BookmarkManager file store (read_bookmarks, add_bookmark,               *)
(* ensure_file_exists).                                                    *)
(*                                                                         *)
(* A Python str is a sequence of one-character strings; "" is << >>.       *)
(***************************************************************************)
EXTENDS Integers, Sequences, FiniteSets, TLC

VARIABLES
    args,        \* codec: the arguments of the last Bookmark(...) call, << >> or <<[name, url, description, tags]>>
    cur,         \* codec: outcome of the last Bookmark(...) call (a record or a ValueError)
    line,        \* codec: << >> or <<s>>, s the last string returned by to_line / given to from_line
    parsed,      \* codec: outcome of the last from_line call
    dirExists,   \* store: the parent directory of bookmark_file exists
    fileExists,  \* store: bookmark_file exists
    content,     \* store: the text of bookmark_file ("" when absent)
    op,          \* store: the last BookmarkManager call and its argument
    pre,         \* store: the store variables as they were when the last call started
    ret,         \* store: the list returned by the last read_bookmarks
    stdout,      \* store: the warnings printed by the last read_bookmarks
    added,       \* store: the records passed to add_bookmark so far, in call order
    origin,      \* store: [dir, exists, content] before the first call
    sinceRead,   \* store: number of add_bookmark calls since the last read_bookmarks, -1 before the first read
    fault,       \* store: what the operating system did to the last read_bookmarks: [kind, at]
    raised,      \* store: the exception the last read_bookmarks raised, "none" when it returned
    files,       \* managers: the file at each path: [path -> [exists, content]]
    mop,         \* managers: the last call: [mgr, name, arg]
    mret,        \* managers: the list returned by the last read_bookmarks
    mpre,        \* managers: files as they were when the last call started
    mhist,       \* managers: who added last, who read last and before, and how many records they got
    display_fields,      \* display: the list of field names given to matches_display_format
    shown,       \* display: << >> or <<s>>, s the string matches_display_format returned
    bookmark_lines, \* selection: the list given to select_bookmark
    fzf,         \* selection: what the fzf process did: [outcome, pick]
    selected,    \* selection: << >> before the call, else <<r>>, r the value select_bookmark returned
    tagsFile,    \* tags: the tags file [dir, exists, content]
    tagOp,       \* tags: the last BookmarkFileManager call [name, arg]
    tagRet,      \* tags: the list returned by the last read_tags
    tagPre,      \* tags: the tags file when the last call started
    configFile,  \* config: the state of config.yaml
    config,      \* config: << >> before the call, else <<m>>, m the mapping read_config returned
    cpc,         \* creator: the position of create_bookmark
    centered,    \* creator: what the prompts have returned so far [name, url, description, tags]
    cret,        \* creator: "none" while create_bookmark runs, else the value it returned
    cout,        \* creator: the messages printed so far
    cstart,      \* creator: the bookmark file when create_bookmark was called
    launched,    \* launcher: the urls handed to the browser
    launchRet,   \* launcher: "none" before launch_bookmark returns, else the value it returned
    procs,       \* race: for each process its position in update_tags, its argument and the tags it read
    tagHist      \* tags: [origin, passed, calls]: the file before the first call, the tags passed to update_tags so far, the number of update_tags calls

codecVars == <<args, cur, line, parsed>>
storeVars == <<dirExists, fileExists, content, op, pre, ret, stdout, added, origin, sinceRead>>
faultVars == <<fault, raised>>
multiVars == <<files, mop, mret, mpre, mhist>>
displayVars == <<display_fields, shown>>
selectVars == <<bookmark_lines, fzf, selected>>
tagsVars == <<tagsFile, tagOp, tagRet, tagPre, tagHist>>
configVars == <<configFile, config>>
creatorVars == <<cpc, centered, cret, cout, cstart>>
launchVars == <<launched, launchRet>>
raceVars == <<procs>>
restVars == <<tagsVars, configVars, creatorVars, launchVars, raceVars>>
auxVars == <<faultVars, multiVars, displayVars, selectVars, restVars>>
vars == <<codecVars, storeVars, auxVars>>

---------------------------------------------------------------------------
(* Bounds *)

\* total number of characters of the four arguments of a Bookmark(...) call
MaxChars == 3
\* length of a raw line handed to from_line
MaxLineLen == 4
\* number of lines of the bookmark file before the first call (hand-written content)
MaxInitLines == 1
\* number of add_bookmark calls in one run
MaxAdds == 2
\* length of the list of field names given to matches_display_format
MaxFields == 3
\* length of the list of display lines given to select_bookmark
MaxDisplayLines == 2
\* number of update_tags calls in one run
MaxUpdates == 2

---------------------------------------------------------------------------
(* Characters and the str methods the code uses *)

\* the characters inputs are drawn from: letters of both cases, the two
\* separators, a blank and a line break
Alphabet == {"a", "b", "A", " ", ",", "|", "\n"}

Strs(n) == UNION {[1..k -> Alphabet] : k \in 0..n}

\* str.isspace for one character
IsSpace(c) == c \in {" ", "\n"}

IsLowerCh(c) == c \in {"a", "b"}
IsUpperCh(c) == c \in {"A", "B"}
IsCased(c) == IsLowerCh(c) \/ IsUpperCh(c)

LowerCh(c) == IF c = "A" THEN "a" ELSE IF c = "B" THEN "b" ELSE c
UpperCh(c) == IF c = "a" THEN "A" ELSE IF c = "b" THEN "B" ELSE c

\* Unicode code points, the order list.sort() compares str by
CodePoint(c) ==
    CASE c = "\n" -> 10
      [] c = " " -> 32
      [] c = "," -> 44
      [] c = "A" -> 65
      [] c = "B" -> 66
      [] c = "a" -> 97
      [] c = "b" -> 98
      [] c = "|" -> 124

Contains(s, c) == \E i \in 1..Len(s) : s[i] = c

Count(s, c) == Cardinality({i \in 1..Len(s) : s[i] = c})

\* str.lower
Lower(s) == [i \in 1..Len(s) |-> LowerCh(s[i])]

\* a title case that starts a word only at the start and after whitespace
Title_by_whitespace(s) ==
    [i \in 1..Len(s) |->
        IF ~IsCased(s[i]) THEN s[i]
        ELSE IF \E j \in 1..(i - 1) :
                   IsCased(s[j]) /\ \A k \in j..(i - 1) : ~IsSpace(s[k])
             THEN LowerCh(s[i])
        ELSE UpperCh(s[i])]

\* str.title: a cased character that follows a cased character is lower-cased,
\* any other cased character is upper-cased; uncased characters are kept
Title(s) ==
    [i \in 1..Len(s) |->
        IF ~IsCased(s[i]) THEN s[i]
        ELSE IF i > 1 /\ IsCased(s[i - 1]) THEN LowerCh(s[i])
        ELSE UpperCh(s[i])]

RECURSIVE LStrip(_)
LStrip(s) == IF s # << >> /\ IsSpace(Head(s)) THEN LStrip(Tail(s)) ELSE s

RECURSIVE RStrip(_)
RStrip(s) ==
    IF s # << >> /\ IsSpace(s[Len(s)]) THEN RStrip(SubSeq(s, 1, Len(s) - 1)) ELSE s

\* str.strip
Strip(s) == RStrip(LStrip(s))

\* position of the first sep in s, 0 when there is none
RECURSIVE FindFrom(_, _, _)
FindFrom(s, sep, i) ==
    IF i > Len(s) THEN 0
    ELSE IF s[i] = sep THEN i
    ELSE FindFrom(s, sep, i + 1)

\* str.split(sep): never empty, "" gives [""]
RECURSIVE Split(_, _)
Split(s, sep) ==
    LET i == FindFrom(s, sep, 1) IN
    IF i = 0 THEN <<s>>
    ELSE <<SubSeq(s, 1, i - 1)>> \o Split(SubSeq(s, i + 1, Len(s)), sep)

\* sep.join(parts)
RECURSIVE Join(_, _)
Join(parts, sep) ==
    IF parts = << >> THEN << >>
    ELSE IF Len(parts) = 1 THEN parts[1]
    ELSE parts[1] \o <<sep>> \o Join(Tail(parts), sep)

\* s < t for str: lexicographic by code point
RECURSIVE StrLess(_, _)
StrLess(s, t) ==
    IF t = << >> THEN FALSE
    ELSE IF s = << >> THEN TRUE
    ELSE IF Head(s) = Head(t) THEN StrLess(Tail(s), Tail(t))
    ELSE CodePoint(Head(s)) < CodePoint(Head(t))

\* [x for x in xs if x]
RECURSIVE DropEmpty(_)
DropEmpty(xs) ==
    IF xs = << >> THEN << >>
    ELSE IF Head(xs) = << >> THEN DropEmpty(Tail(xs))
    ELSE <<Head(xs)>> \o DropEmpty(Tail(xs))

\* list(dict.fromkeys(xs)): the first occurrence of each element, in order
RECURSIVE FromKeys(_)
FromKeys(xs) ==
    IF xs = << >> THEN << >>
    ELSE LET front == FromKeys(SubSeq(xs, 1, Len(xs) - 1))
             x == xs[Len(xs)]
         IN IF \E i \in 1..Len(front) : front[i] = x THEN front ELSE front \o <<x>>

RECURSIVE Insert(_, _)
Insert(x, sorted) ==
    IF sorted = << >> THEN <<x>>
    ELSE IF StrLess(x, Head(sorted)) THEN <<x>> \o sorted
    ELSE <<Head(sorted)>> \o Insert(x, Tail(sorted))

\* list.sort() on a list of str
RECURSIVE Sort(_)
Sort(xs) == IF xs = << >> THEN << >> ELSE Insert(xs[Len(xs)], Sort(SubSeq(xs, 1, Len(xs) - 1)))

---------------------------------------------------------------------------
(* Bookmark (models.py) *)

\* a Bookmark instance
Record(n, u, d, t) ==
    [kind |-> "Bookmark", name |-> n, url |-> u, description |-> d, tags |-> t, got |-> 0]

\* a raised ValueError; got is the field count of a format error, 0 otherwise
ValueError(msg, n) ==
    [kind |-> msg, name |-> << >>, url |-> << >>, description |-> << >>, tags |-> << >>, got |-> n]

NameError == "ValueError: Name cannot contain pipe characters"
FormatError == "ValueError: Invalid bookmark format"

NoValue ==
    [kind |-> "none", name |-> << >>, url |-> << >>, description |-> << >>, tags |-> << >>, got |-> 0]

IsBookmark(b) == b.kind = "Bookmark"

\* normalize_name without the pipe check
normalize_name_unchecked(name) == [ok |-> TRUE, value |-> Title(name)]

\* Bookmark._normalize_name, with ok = FALSE for the raised ValueError
normalize_name(name) ==
    IF Contains(name, "|") THEN [ok |-> FALSE, value |-> << >>]
    ELSE [ok |-> TRUE, value |-> Title(name)]

\* normalize_tags with the sort left out
normalize_tags_unsorted(tags) ==
    IF Strip(tags) = << >> THEN << >>
    ELSE LET split == Split(tags, ",")
             tag_list == [i \in 1..Len(split) |-> Lower(Strip(split[i]))]
         IN Join(FromKeys(DropEmpty(tag_list)), ",")

\* normalize_tags that drops the empty pieces before it strips them
normalize_tags_filter_first(tags) ==
    IF Strip(tags) = << >> THEN << >>
    ELSE LET split == DropEmpty(Split(tags, ","))
             tag_list == [i \in 1..Len(split) |-> Lower(Strip(split[i]))]
         IN Join(Sort(FromKeys(tag_list)), ",")

\* Bookmark._normalize_tags
normalize_tags(tags) ==
    IF Strip(tags) = << >> THEN << >>
    ELSE LET split == Split(tags, ",")
             tag_list == [i \in 1..Len(split) |-> Lower(Strip(split[i]))]
             unique_tags == FromKeys(DropEmpty(tag_list))
         IN Join(Sort(unique_tags), ",")

\* Bookmark(name, url, description, tags): the dataclass __init__ followed by __post_init__
Bookmark(name, url, description, tags) ==
    LET n == normalize_name(name) IN
    IF ~n.ok THEN ValueError(NameError, 0)
    ELSE Record(n.value, url, description, normalize_tags(tags))

\* to_line with url and description in each other's place
to_line_swapped(b) ==
    b.name \o <<"|">> \o b.description \o <<"|">> \o b.url \o <<"|">> \o b.tags

\* to_line that leaves out the last separator when there are no tags
to_line_trimmed(b) ==
    IF b.tags = << >> THEN b.name \o <<"|">> \o b.url \o <<"|">> \o b.description
    ELSE b.name \o <<"|">> \o b.url \o <<"|">> \o b.description \o <<"|">> \o b.tags

\* Bookmark.to_line
to_line(b) == b.name \o <<"|">> \o b.url \o <<"|">> \o b.description \o <<"|">> \o b.tags

\* from_line that stores the four parts as they are, without the constructor
from_line_verbatim(l) ==
    LET parts == Split(Strip(l), "|") IN
    IF Len(parts) # 4 THEN ValueError(FormatError, Len(parts))
    ELSE Record(parts[1], parts[2], parts[3], parts[4])

\* from_line that only rejects lines with fewer than four parts
from_line_atleast(l) ==
    LET parts == Split(Strip(l), "|") IN
    IF Len(parts) < 4 THEN ValueError(FormatError, Len(parts))
    ELSE Bookmark(parts[1], parts[2], parts[3], parts[4])

\* Bookmark.from_line
from_line(l) ==
    LET parts == Split(Strip(l), "|") IN
    IF Len(parts) # 4 THEN ValueError(FormatError, Len(parts))
    ELSE Bookmark(parts[1], parts[2], parts[3], parts[4])

---------------------------------------------------------------------------
(* The codec as a state machine: construct, serialize, parse *)

\* matches_display_format: the dict field_map
field_map(b) ==
    [name |-> b.name, url |-> b.url, description |-> b.description, tags |-> b.tags]

\* matches_display_format that leaves unknown field names out
matches_display_format_skipping(b, fields) ==
    LET known == SelectSeq(fields, LAMBDA f : f \in DOMAIN field_map(b)) IN
    Join([i \in 1..Len(known) |-> field_map(b)[known[i]]], "|")

\* Bookmark.matches_display_format
matches_display_format(b, fields) ==
    LET display_values ==
            [i \in 1..Len(fields) |->
                IF fields[i] \in DOMAIN field_map(b) THEN field_map(b)[fields[i]]
                ELSE << >>]
    IN Join(display_values, "|")

CodecIdle ==
    /\ args = << >>
    /\ cur = NoValue
    /\ line = << >>
    /\ parsed = NoValue

NoCall == [name |-> "init", arg |-> NoValue]

StoreIdle ==
    /\ dirExists = FALSE
    /\ fileExists = FALSE
    /\ content = << >>
    /\ op = NoCall
    /\ pre = [dir |-> FALSE, exists |-> FALSE, content |-> << >>,
              ret |-> << >>, stdout |-> << >>, sinceRead |-> -1]
    /\ ret = << >>
    /\ stdout = << >>
    /\ added = << >>
    /\ origin = [dir |-> FALSE, exists |-> FALSE, content |-> << >>]
    /\ sinceRead = -1

NoFault == [kind |-> "none", at |-> 0]

FaultIdle == fault = NoFault /\ raised = "none"

NoHistory ==
    [adds |-> 0, adder |-> "none", reader |-> "none", seen |-> 0,
     prevReader |-> "none", prevSeen |-> 0]

MultiIdle ==
    /\ files = << >>
    /\ mop = [mgr |-> "none", name |-> "init", arg |-> NoValue]
    /\ mret = << >>
    /\ mpre = << >>
    /\ mhist = NoHistory

DisplayIdle == display_fields = << >> /\ shown = << >>

SelectIdle ==
    /\ bookmark_lines = << >>
    /\ fzf = [outcome |-> "none", pick |-> 0]
    /\ selected = << >>

NoTagsFile == [dir |-> FALSE, exists |-> FALSE, content |-> << >>]

TagsIdle ==
    /\ tagsFile = NoTagsFile
    /\ tagOp = [name |-> "init", arg |-> << >>]
    /\ tagRet = << >>
    /\ tagPre = NoTagsFile
    /\ tagHist = [origin |-> NoTagsFile, passed |-> {}, calls |-> 0]

ConfigIdle ==
    /\ configFile = [state |-> "absent",
                     doc |-> [type |-> "none", mapping |-> << >>, items |-> << >>]]
    /\ config = << >>

CreatorIdle ==
    /\ cpc = "idle"
    /\ centered = << >>
    /\ cret = "none"
    /\ cout = << >>
    /\ cstart = << >>

LaunchIdle == launched = << >> /\ launchRet = "none"

RaceIdle == procs = << >>

RestIdle == TagsIdle /\ ConfigIdle /\ CreatorIdle /\ LaunchIdle /\ RaceIdle

\* every way to cut a string of at most MaxChars characters into four arguments
ArgTuples ==
    {[name |-> SubSeq(q[1], 1, q[2]), url |-> SubSeq(q[1], q[2] + 1, q[3]),
      description |-> SubSeq(q[1], q[3] + 1, q[4]), tags |-> SubSeq(q[1], q[4] + 1, Len(q[1]))] :
        q \in {c \in Strs(MaxChars) \X (0..MaxChars) \X (0..MaxChars) \X (0..MaxChars) :
                  c[2] <= c[3] /\ c[3] <= c[4] /\ c[4] <= Len(c[1])}}

\* the lines handed to from_line directly: every short string, and every way
\* to write four short fields with '|' between them
RawLines ==
    Strs(MaxLineLen) \cup
    {a.name \o <<"|">> \o a.url \o <<"|">> \o a.description \o <<"|">> \o a.tags :
        a \in ArgTuples}

\* the caller holds either the arguments of a Bookmark(...) call or a raw line
\* for from_line; nothing has been called yet
InitCodec ==
    /\ \/ args \in {<<a>> : a \in ArgTuples} /\ line = << >>
       \/ args = << >> /\ line \in {<<l>> : l \in RawLines}
    /\ cur = NoValue
    /\ parsed = NoValue
    /\ StoreIdle
    /\ FaultIdle /\ MultiIdle /\ DisplayIdle /\ SelectIdle
    /\ RestIdle

\* the call Bookmark(name, url, description, tags)
Construct ==
    /\ args # << >>
    /\ cur = NoValue
    /\ cur' = Bookmark(args[1].name, args[1].url, args[1].description, args[1].tags)
    /\ UNCHANGED <<args, line, parsed>>
    /\ UNCHANGED storeVars
    /\ UNCHANGED auxVars

\* the call cur.to_line()
ToLine ==
    /\ IsBookmark(cur)
    /\ line = << >>
    /\ line' = <<to_line(cur)>>
    /\ UNCHANGED <<args, cur, parsed>>
    /\ UNCHANGED storeVars
    /\ UNCHANGED auxVars

\* the call Bookmark.from_line(cur.to_line())
FromLineSerialized ==
    /\ IsBookmark(cur)
    /\ line # << >>
    /\ parsed = NoValue
    /\ parsed' = from_line(line[1])
    /\ UNCHANGED <<args, cur, line>>
    /\ UNCHANGED storeVars
    /\ UNCHANGED auxVars

\* the call Bookmark.from_line(l) on a line that to_line did not produce
FromLineInput ==
    /\ args = << >>
    /\ line # << >>
    /\ parsed = NoValue
    /\ parsed' = from_line(line[1])
    /\ UNCHANGED <<args, cur, line>>
    /\ UNCHANGED storeVars
    /\ UNCHANGED auxVars

NextCodec == Construct \/ ToLine \/ FromLineSerialized \/ FromLineInput

SpecCodec == InitCodec /\ [][NextCodec]_vars

---------------------------------------------------------------------------
(* BookmarkManager (models.py) *)

\* iterating a text file: each line keeps its "\n"; a last line may have none
RECURSIVE FileLines(_)
FileLines(text) ==
    IF text = << >> THEN << >>
    ELSE LET i == FindFrom(text, "\n", 1) IN
         IF i = 0 THEN <<text>>
         ELSE <<SubSeq(text, 1, i)>> \o FileLines(SubSeq(text, i + 1, Len(text)))

\* a line that is not blank after strip() and that from_line rejects
MalformedText(l) == Strip(l) # << >> /\ ~IsBookmark(from_line(Strip(l)))

\* a warning that numbers the lines from 0
Warning_zero_based(line_num, e) == [line_num |-> line_num - 1, error |-> e.kind, got |-> e.got]

\* the printed warning "Skipping malformed bookmark on line {line_num}: {e}"
Warning(line_num, e) == [line_num |-> line_num, error |-> e.kind, got |-> e.got]

\* the loop of read_bookmarks over enumerate(f, 1)
RECURSIVE read_loop(_, _, _, _)
read_loop(lines, line_num, bookmarks, printed) ==
    IF lines = << >> THEN [bookmarks |-> bookmarks, printed |-> printed]
    ELSE LET l == Strip(Head(lines)) IN
         IF l = << >> THEN read_loop(Tail(lines), line_num + 1, bookmarks, printed)
         ELSE LET bookmark == from_line(l) IN
              IF IsBookmark(bookmark)
              THEN read_loop(Tail(lines), line_num + 1, Append(bookmarks, bookmark), printed)
              ELSE read_loop(Tail(lines), line_num + 1, bookmarks,
                             Append(printed, Warning(line_num, bookmark)))

\* read_bookmarks that stops at the first malformed line
read_bookmarks_stopping(exists, text) ==
    IF ~exists THEN [bookmarks |-> << >>, printed |-> << >>]
    ELSE LET lines == FileLines(text)
             bad == {i \in 1..Len(lines) :
                        Strip(lines[i]) # << >> /\ ~IsBookmark(from_line(Strip(lines[i])))}
             stop == IF bad = {} THEN Len(lines)
                     ELSE CHOOSE i \in bad : \A j \in bad : i <= j
         IN read_loop(SubSeq(lines, 1, stop), 1, << >>, << >>)

\* read_bookmarks that skips malformed lines without printing
read_bookmarks_silent(exists, text) ==
    IF ~exists THEN [bookmarks |-> << >>, printed |-> << >>]
    ELSE [bookmarks |-> read_loop(FileLines(text), 1, << >>, << >>).bookmarks,
          printed |-> << >>]

\* BookmarkManager.read_bookmarks: the returned list and what it printed
read_bookmarks(exists, text) ==
    IF ~exists THEN [bookmarks |-> << >>, printed |-> << >>]
    ELSE read_loop(FileLines(text), 1, << >>, << >>)

\* what the operating system can do to a read of an existing file: nothing,
\* refuse open(), fail an open() or a read with an I/O error after `at` lines
\* were delivered, or deliver bytes that are not UTF-8 after `at` lines
Faults(text) ==
    {NoFault, [kind |-> "PermissionError", at |-> 0]} \cup
    {[kind |-> k, at |-> n] :
        k \in {"OSError", "UnicodeDecodeError"}, n \in 0..Len(FileLines(text))}

\* isinstance(e, ValueError) for the exceptions the model knows by name
IsValueError(k) == k \in {NameError, FormatError, "UnicodeDecodeError"}

\* the except clauses around the with-block: PermissionError and OSError are
\* raised again under their own class, any other exception propagates
reraise(kind) ==
    IF kind = "PermissionError" THEN "PermissionError"
    ELSE IF kind = "OSError" THEN "OSError"
    ELSE kind

\* read_bookmarks without the try / except ValueError around from_line
read_bookmarks_io_unguarded(exists, text, f) ==
    IF ~exists THEN [raised |-> "none", bookmarks |-> << >>, printed |-> << >>]
    ELSE LET lines == FileLines(text)
             seen == IF f.kind = "none" THEN lines ELSE SubSeq(lines, 1, f.at)
             bad == {i \in 1..Len(seen) : MalformedText(seen[i])}
         IN IF bad # {}
            THEN [raised |-> FormatError, bookmarks |-> << >>, printed |-> << >>]
            ELSE [raised |-> reraise(f.kind),
                  bookmarks |-> IF f.kind = "none"
                                THEN read_loop(seen, 1, << >>, << >>).bookmarks ELSE << >>,
                  printed |-> << >>]

\* read_bookmarks without the exists() check: open() of a missing file raises
\* FileNotFoundError, which the except OSError clause raises again
read_bookmarks_io_unchecked(exists, text, f) ==
    IF ~exists THEN [raised |-> "OSError", bookmarks |-> << >>, printed |-> << >>]
    ELSE IF f.kind = "none"
    THEN LET r == read_bookmarks(exists, text) IN
         [raised |-> "none", bookmarks |-> r.bookmarks, printed |-> r.printed]
    ELSE LET r == read_loop(SubSeq(FileLines(text), 1, f.at), 1, << >>, << >>) IN
         [raised |-> reraise(f.kind), bookmarks |-> << >>, printed |-> r.printed]

\* BookmarkManager.read_bookmarks when the operating system does f: the
\* exception that leaves the call ("none" when it returns), the returned list
\* and what was printed before the call ended
read_bookmarks_io(exists, text, f) ==
    IF ~exists THEN [raised |-> "none", bookmarks |-> << >>, printed |-> << >>]
    ELSE IF f.kind = "none"
    THEN LET r == read_bookmarks(exists, text) IN
         [raised |-> "none", bookmarks |-> r.bookmarks, printed |-> r.printed]
    ELSE LET r == read_loop(SubSeq(FileLines(text), 1, f.at), 1, << >>, << >>) IN
         [raised |-> reraise(f.kind), bookmarks |-> << >>, printed |-> r.printed]

\* add_bookmark that opens the file with mode "w"
add_bookmark_truncating(text, bookmark) == to_line(bookmark) \o <<"\n">>

\* add_bookmark that writes the line without the newline
add_bookmark_unterminated(text, bookmark) == text \o to_line(bookmark)

\* add_bookmark that writes the line in front of the old content
add_bookmark_prepending(text, bookmark) == to_line(bookmark) \o <<"\n">> \o text

\* BookmarkManager.add_bookmark: the text of the file after open(..., "a") and write
add_bookmark(text, bookmark) == text \o to_line(bookmark) \o <<"\n">>

\* ensure_file_exists that creates the file with open(..., "w")
ensure_file_exists_truncating(f) == [dir |-> TRUE, exists |-> TRUE, content |-> << >>]

\* BookmarkManager.ensure_file_exists on the file f = [dir, exists, content]:
\* mkdir(parents=True, exist_ok=True) and touch() only when the file is absent
ensure_file_exists(f) ==
    IF ~f.exists THEN [dir |-> TRUE, exists |-> TRUE, content |-> << >>] ELSE f

---------------------------------------------------------------------------
(* The store as a state machine *)

\* lines a hand-written bookmark file is made of: blank, too few fields,
\* well-formed but indented and not normalized, too many fields
InitLineChoices ==
    { <<" ">>,
      <<"a", "|", "b">>,
      <<" ", "b", "a", "|", "a", "|", "|", "b", ",", "A">>,
      <<"a", "|", "|", "|", "|">> }

RECURSIVE Terminated(_)
Terminated(ls) ==
    IF ls = << >> THEN << >> ELSE Head(ls) \o <<"\n">> \o Terminated(Tail(ls))

\* texts of at most MaxInitLines lines, the last one with or without its "\n"
InitContents ==
    UNION {
        UNION {{Terminated(ls), Join(ls, "\n")} : ls \in [1..n -> InitLineChoices]} :
        n \in 0..MaxInitLines}

\* the arguments of the Bookmark(...) calls whose records are added: plain,
\* empty name, indented name, '|' in url, '|' in description, '|' and a line break in url
\* and description such that each piece has four fields, '|' in name
StoreInputs ==
    { [name |-> <<"a", "b">>, url |-> <<"a">>, description |-> << >>, tags |-> <<"b", ",", "A">>],
      [name |-> << >>, url |-> <<" ", "b">>, description |-> << >>, tags |-> << >>],
      [name |-> <<" ", "a">>, url |-> <<"b">>, description |-> << >>, tags |-> << >>],
      [name |-> <<"a">>, url |-> <<"|">>, description |-> << >>, tags |-> << >>],
      [name |-> <<"a">>, url |-> << >>, description |-> <<"a", "|", "b">>, tags |-> << >>],
      [name |-> <<"a">>, url |-> <<"|", "|", "\n">>, description |-> <<"|">>, tags |-> << >>],
      [name |-> <<"|">>, url |-> <<"a">>, description |-> << >>, tags |-> << >>] }

Snapshot ==
    [dir |-> dirExists, exists |-> fileExists, content |-> content,
     ret |-> ret, stdout |-> stdout, sinceRead |-> sinceRead]

\* the file was written by hand, or is absent with or without its directory
Init ==
    /\ CodecIdle
    /\ FaultIdle /\ MultiIdle /\ DisplayIdle /\ SelectIdle
    /\ RestIdle
    /\ \/ dirExists \in BOOLEAN /\ fileExists = FALSE /\ content = << >>
       \/ dirExists = TRUE /\ fileExists = TRUE /\ content \in InitContents
    /\ origin = [dir |-> dirExists, exists |-> fileExists, content |-> content]
    /\ op = NoCall
    /\ pre = [dir |-> dirExists, exists |-> fileExists, content |-> content,
              ret |-> << >>, stdout |-> << >>, sinceRead |-> -1]
    /\ ret = << >>
    /\ stdout = << >>
    /\ added = << >>
    /\ sinceRead = -1

\* manager.add_bookmark(Bookmark(...))
AddBookmark ==
    \E a \in StoreInputs :
        LET bookmark == Bookmark(a.name, a.url, a.description, a.tags) IN
        /\ IsBookmark(bookmark)
        /\ Len(added) < MaxAdds
        /\ pre' = Snapshot
        /\ op' = [name |-> "add_bookmark", arg |-> bookmark]
        /\ dirExists' = TRUE
        /\ fileExists' = TRUE
        /\ content' = add_bookmark(content, bookmark)
        /\ added' = Append(added, bookmark)
        /\ sinceRead' = IF sinceRead < 0 THEN sinceRead ELSE sinceRead + 1
        /\ UNCHANGED <<ret, stdout, origin>>
        /\ UNCHANGED codecVars
        /\ UNCHANGED auxVars

\* read_bookmarks that creates the directory and the file when they are absent
read_bookmarks_creating(f) == ensure_file_exists(f)

\* BookmarkManager.read_bookmarks: the store after the call; the file is only
\* tested with exists() and opened with mode "r"
read_bookmarks_store(f) == f

\* manager.read_bookmarks()
ReadBookmarks ==
    LET r == read_bookmarks(fileExists, content)
        f == read_bookmarks_store([dir |-> dirExists, exists |-> fileExists,
                                   content |-> content])
    IN
    /\ pre' = Snapshot
    /\ op' = [name |-> "read_bookmarks", arg |-> NoValue]
    /\ ret' = r.bookmarks
    /\ stdout' = r.printed
    /\ sinceRead' = 0
    /\ dirExists' = f.dir /\ fileExists' = f.exists /\ content' = f.content
    /\ UNCHANGED <<added, origin>>
    /\ UNCHANGED codecVars
    /\ UNCHANGED auxVars

\* manager.ensure_file_exists()
EnsureFileExists ==
    /\ pre' = Snapshot
    /\ op' = [name |-> "ensure_file_exists", arg |-> NoValue]
    /\ LET f == ensure_file_exists([dir |-> dirExists, exists |-> fileExists,
                                     content |-> content])
       IN dirExists' = f.dir /\ fileExists' = f.exists /\ content' = f.content
    /\ UNCHANGED <<ret, stdout, added, origin, sinceRead>>
    /\ UNCHANGED codecVars
    /\ UNCHANGED auxVars

Next == AddBookmark \/ ReadBookmarks \/ EnsureFileExists

Spec == Init /\ [][Next]_vars

---------------------------------------------------------------------------
(* Reads on a file system that can fail *)

\* texts of at most MaxInitLines + 1 lines, the last one with or without its "\n"
FaultContents ==
    UNION {
        UNION {{Terminated(ls), Join(ls, "\n")} : ls \in [1..n -> InitLineChoices]} :
        n \in 0..(MaxInitLines + 1)}

InitFault ==
    /\ CodecIdle
    /\ FaultIdle /\ MultiIdle /\ DisplayIdle /\ SelectIdle
    /\ RestIdle
    /\ \/ dirExists \in BOOLEAN /\ fileExists = FALSE /\ content = << >>
       \/ dirExists = TRUE /\ fileExists = TRUE /\ content \in FaultContents
    /\ origin = [dir |-> dirExists, exists |-> fileExists, content |-> content]
    /\ op = NoCall
    /\ pre = [dir |-> dirExists, exists |-> fileExists, content |-> content,
              ret |-> << >>, stdout |-> << >>, sinceRead |-> -1]
    /\ ret = << >>
    /\ stdout = << >>
    /\ added = << >>
    /\ sinceRead = -1

\* manager.read_bookmarks() while the operating system does f; when the call
\* raises, the caller's variable keeps the value it had
ReadBookmarksIO ==
    \E f \in Faults(content) :
        LET r == read_bookmarks_io(fileExists, content, f) IN
        /\ pre' = Snapshot
        /\ op' = [name |-> "read_bookmarks", arg |-> NoValue]
        /\ fault' = f
        /\ raised' = r.raised
        /\ ret' = IF r.raised = "none" THEN r.bookmarks ELSE ret
        /\ stdout' = r.printed
        /\ sinceRead' = 0
        /\ UNCHANGED <<dirExists, fileExists, content, added, origin>>
        /\ UNCHANGED codecVars
        /\ UNCHANGED <<multiVars, displayVars, selectVars, restVars>>

NextFault == ReadBookmarksIO

SpecFault == InitFault /\ [][NextFault]_vars

---------------------------------------------------------------------------
(* Several managers, several paths *)

Paths == {"work", "personal"}

\* the path each manager was constructed with: two managers share a file
Binding == [m1 |-> "work", m2 |-> "work", m3 |-> "personal"]

Managers == DOMAIN Binding

\* a manager whose path is a class attribute shared by every instance
bookmark_file_shared(m) == "work"

\* BookmarkManager.__init__: self.bookmark_file = bookmark_file
bookmark_file(m) == Binding[m]

\* the arguments of the Bookmark(...) calls whose records the managers add
MultiInputs ==
    { [name |-> <<"a">>, url |-> <<"a">>, description |-> << >>, tags |-> << >>],
      [name |-> <<"b">>, url |-> <<"b">>, description |-> << >>, tags |-> <<"b", ",", "a">>] }

\* a hand-written file: a well-formed line, not normalized, and a malformed one
MultiContent == <<"b", "|", "|", "|", "b", ",", "A", "\n", "a", "|", "b", "\n">>

InitMulti ==
    /\ CodecIdle
    /\ StoreIdle
    /\ FaultIdle /\ DisplayIdle /\ SelectIdle
    /\ RestIdle
    /\ files \in [Paths -> {[exists |-> FALSE, content |-> << >>],
                            [exists |-> TRUE, content |-> MultiContent]}]
    /\ mop = [mgr |-> "none", name |-> "init", arg |-> NoValue]
    /\ mret = << >>
    /\ mpre = files
    /\ mhist = NoHistory

\* m.add_bookmark(Bookmark(...))
MgrAddBookmark ==
    \E m \in Managers, a \in MultiInputs :
        LET bookmark == Bookmark(a.name, a.url, a.description, a.tags)
            path == bookmark_file(m)
        IN /\ IsBookmark(bookmark)
           /\ mhist.adds < MaxAdds
           /\ mpre' = files
           /\ mop' = [mgr |-> m, name |-> "add_bookmark", arg |-> bookmark]
           /\ files' = [files EXCEPT ![path] =
                           [exists |-> TRUE, content |-> add_bookmark(@.content, bookmark)]]
           /\ mhist' = [mhist EXCEPT !.adds = @ + 1, !.adder = m]
           /\ UNCHANGED mret
           /\ UNCHANGED <<codecVars, storeVars, faultVars, displayVars, selectVars, restVars>>

\* m.read_bookmarks()
MgrReadBookmarks ==
    \E m \in Managers :
        LET path == bookmark_file(m)
            r == read_bookmarks(files[path].exists, files[path].content)
        IN /\ mpre' = files
           /\ mop' = [mgr |-> m, name |-> "read_bookmarks", arg |-> NoValue]
           /\ mret' = r.bookmarks
           /\ mhist' = [mhist EXCEPT !.reader = m, !.seen = Len(r.bookmarks),
                                     !.prevReader = mhist.reader, !.prevSeen = mhist.seen]
           /\ UNCHANGED files
           /\ UNCHANGED <<codecVars, storeVars, faultVars, displayVars, selectVars, restVars>>

NextMulti == MgrAddBookmark \/ MgrReadBookmarks

SpecMulti == InitMulti /\ [][NextMulti]_vars

---------------------------------------------------------------------------
(* Display lines *)

\* the field names a configuration can list: the four fields and an unknown one
FieldNames == {"name", "url", "description", "tags", "invalid"}

FieldLists == UNION {[1..n -> FieldNames] : n \in 0..MaxFields}

\* the records that are displayed: those of StoreInputs
DisplayRecords ==
    {Bookmark(a.name, a.url, a.description, a.tags) : a \in
        {x \in StoreInputs : ~Contains(x.name, "|")}}

\* a record and a list of field names; nothing has been called yet
InitDisplay ==
    /\ args = << >>
    /\ cur \in DisplayRecords
    /\ line = << >>
    /\ parsed = NoValue
    /\ StoreIdle
    /\ FaultIdle /\ MultiIdle /\ SelectIdle
    /\ RestIdle
    /\ display_fields \in FieldLists
    /\ shown = << >>

\* the call cur.matches_display_format(display_fields)
MatchesDisplayFormat ==
    /\ shown = << >>
    /\ shown' = <<matches_display_format(cur, display_fields)>>
    /\ UNCHANGED display_fields
    /\ UNCHANGED <<codecVars, storeVars, faultVars, multiVars, selectVars, restVars>>

NextDisplay == MatchesDisplayFormat

SpecDisplay == InitDisplay /\ [][NextDisplay]_vars

---------------------------------------------------------------------------
(* FZFInterface.select_bookmark (fzf_interface.py) *)

None == [kind |-> "None", value |-> << >>]

Str(s) == [kind |-> "str", value |-> s]

\* the items fzf shows for the text written to its standard input
FzfItems(input_data) == Split(input_data, "\n")

\* what the fzf process can do with the text it is given: print one of its
\* items and a newline and exit with 0, exit with 130 when the user cancels,
\* exit with another code, or fail to start
FzfOutcomes(input_data) ==
    {[outcome |-> "selected", pick |-> i] : i \in 1..Len(FzfItems(input_data))} \cup
    {[outcome |-> o, pick |-> 0] : o \in {"cancelled", "error", "exception"}}

\* FZFInterface.select_bookmark when the fzf process does f
select_bookmark(lines, f) ==
    IF lines = << >> THEN None
    ELSE LET input_data == Join(lines, "\n")
             out == IF f.outcome = "selected"
                    THEN FzfItems(input_data)[f.pick] \o <<"\n">> ELSE << >>
         IN IF f.outcome = "exception" THEN None
            ELSE IF f.outcome = "selected" THEN Str(Strip(out))
            ELSE None

\* display lines as matches_display_format builds them: name and url; name,
\* description and a url that ends with a blank; an indented name alone; name
\* and description with an empty url; only unknown field names
SelectLines ==
    { <<"A", "|", "|", "a">>,
      <<"A", "b", "|", "|", "b", " ">>,
      <<" ", "A">>,
      <<"B", "|", "a", "|">>,
      << >> }

InitSelect ==
    /\ CodecIdle
    /\ StoreIdle
    /\ FaultIdle /\ MultiIdle /\ DisplayIdle
    /\ RestIdle
    /\ bookmark_lines \in UNION {[1..n -> SelectLines] : n \in 0..MaxDisplayLines}
    /\ fzf = [outcome |-> "none", pick |-> 0]
    /\ selected = << >>

\* the call select_bookmark(bookmark_lines); fzf is not started for an empty list
SelectBookmark ==
    /\ selected = << >>
    /\ \E f \in IF bookmark_lines = << >> THEN {[outcome |-> "not_run", pick |-> 0]}
                ELSE FzfOutcomes(Join(bookmark_lines, "\n")) :
          /\ fzf' = f
          /\ selected' = <<select_bookmark(bookmark_lines, f)>>
    /\ UNCHANGED bookmark_lines
    /\ UNCHANGED <<codecVars, storeVars, faultVars, multiVars, displayVars, restVars>>

NextSelect == SelectBookmark

SpecSelect == InitSelect /\ [][NextSelect]_vars

---------------------------------------------------------------------------
(* BookmarkFileManager: the tags file (file_manager.py) *)

\* BookmarkFileManager.read_tags on the file f = [dir, exists, content]
read_tags(f) ==
    IF ~f.exists THEN << >>
    ELSE LET lines == FileLines(f.content)
             kept == SelectSeq(lines, LAMBDA l : Strip(l) # << >>)
             tags == [i \in 1..Len(kept) |-> Lower(Strip(kept[i]))]
         IN Sort(FromKeys(tags))

\* update_tags that writes only the new tags
update_tags_overwriting(f, new_tags) ==
    IF new_tags = << >> THEN f
    ELSE LET all_tags == [i \in 1..Len(new_tags) |-> Strip(Lower(new_tags[i]))]
         IN [dir |-> TRUE, exists |-> TRUE, content |-> Terminated(Sort(FromKeys(all_tags)))]

\* a write that leaves out the tags that were read
write_tags_new_only(existing_tags, new_tags) ==
    LET all_tags == [i \in 1..Len(new_tags) |-> Strip(Lower(new_tags[i]))]
    IN [dir |-> TRUE, exists |-> TRUE, content |-> Terminated(Sort(FromKeys(all_tags)))]

\* the file that update_tags writes for the tags it read and the tags it got
write_tags(existing_tags, new_tags) ==
    LET all_tags == existing_tags \o
                       [i \in 1..Len(new_tags) |-> Strip(Lower(new_tags[i]))]
        unique_tags == Sort(FromKeys(all_tags))
    IN [dir |-> TRUE, exists |-> TRUE, content |-> Terminated(unique_tags)]

\* BookmarkFileManager.update_tags: the file after the call
update_tags(f, new_tags) ==
    IF new_tags = << >> THEN f
    ELSE write_tags(read_tags(f), new_tags)

\* hand-written tags files: empty; one tag; mixed case, a blank line, a
\* repeated tag and a last line without its "\n"
TagsContents ==
    { << >>,
      <<"b", "\n">>,
      <<"A", "\n", " ", "\n", "a", "\n", " ", "b">> }

\* the lists passed to update_tags: empty; one tag; mixed case with a repeat;
\* an empty and a blank tag; a tag with a line break in it; two new tags
TagLists ==
    { << >>,
      << <<"b">> >>,
      << <<"A">>, <<" ", "b">>, <<"a">> >>,
      << << >>, <<" ">> >>,
      << <<"a", "b", "\n", "A">> >>,
      << <<"b", "a">>, <<"a", "a">> >> }

InitTags ==
    /\ CodecIdle
    /\ StoreIdle
    /\ FaultIdle /\ MultiIdle /\ DisplayIdle /\ SelectIdle
    /\ ConfigIdle /\ CreatorIdle /\ LaunchIdle /\ RaceIdle
    /\ \/ tagsFile \in {[dir |-> d, exists |-> FALSE, content |-> << >>] : d \in BOOLEAN}
       \/ tagsFile \in {[dir |-> TRUE, exists |-> TRUE, content |-> c] : c \in TagsContents}
    /\ tagOp = [name |-> "init", arg |-> << >>]
    /\ tagRet = << >>
    /\ tagPre = tagsFile
    /\ tagHist = [origin |-> tagsFile, passed |-> {}, calls |-> 0]

\* file_manager.update_tags(new_tags)
UpdateTags ==
    \E new_tags \in TagLists :
        /\ tagHist.calls < MaxUpdates
        /\ tagPre' = tagsFile
        /\ tagOp' = [name |-> "update_tags", arg |-> new_tags]
        /\ tagsFile' = update_tags(tagsFile, new_tags)
        /\ tagHist' = [tagHist EXCEPT
                          !.passed = @ \cup {new_tags[i] : i \in 1..Len(new_tags)},
                          !.calls = @ + 1]
        /\ UNCHANGED tagRet
        /\ UNCHANGED <<codecVars, storeVars, faultVars, multiVars, displayVars, selectVars>>
        /\ UNCHANGED <<configVars, creatorVars, launchVars, raceVars>>

\* file_manager.read_tags()
ReadTags ==
    /\ tagPre' = tagsFile
    /\ tagOp' = [name |-> "read_tags", arg |-> << >>]
    /\ tagRet' = read_tags(tagsFile)
    /\ UNCHANGED <<tagsFile, tagHist>>
    /\ UNCHANGED <<codecVars, storeVars, faultVars, multiVars, displayVars, selectVars>>
    /\ UNCHANGED <<configVars, creatorVars, launchVars, raceVars>>

NextTags == UpdateTags \/ ReadTags

SpecTags == InitTags /\ [][NextTags]_vars

---------------------------------------------------------------------------
(* BookmarkFileManager.read_config (file_manager.py) *)

\* Python values in a configuration: a list of str, a str, None
ListV(xs) == [t |-> "list", v |-> xs]
StrV(x) == [t |-> "str", v |-> <<x>>]
NoneV == [t |-> "None", v |-> << >>]

default_config ==
    [display_fields |-> ListV(<<"name", "description", "url">>),
     browser |-> NoneV,
     default_bookmark_file |-> StrV("bookmarks.txt")]

\* the values a configuration file gives to a key
ValueChoices(k) ==
    CASE k = "display_fields" -> {ListV(<<"name", "url">>), StrV("name")}
      [] k = "browser" -> {StrV("firefox"), NoneV}
      [] k = "default_bookmark_file" -> {StrV("my_bookmarks.txt"), StrV("bookmarks.txt")}
      [] OTHER -> {StrV("vim")}

ConfigKeys == {"display_fields", "browser", "default_bookmark_file", "editor"}

\* the YAML mappings over the three recognized keys and one unknown key
Mappings ==
    UNION {{m \in [K -> UNION {ValueChoices(k) : k \in K}] :
               \A k \in K : m[k] \in ValueChoices(k)} : K \in SUBSET ConfigKeys}

\* an element of a YAML sequence: a sequence or string of n items, or a number
SeqItem(items) == [iterable |-> TRUE, items |-> items]
NumberItem == [iterable |-> FALSE, items |-> << >>]

\* what yaml.safe_load returns for a valid document: a mapping, a sequence
\* (empty, of one-character strings, of pairs, of triples, of numbers), a
\* string (empty or not) or a number
Documents ==
    {[type |-> "mapping", mapping |-> m, items |-> << >>] : m \in Mappings} \cup
    {[type |-> "list", mapping |-> << >>, items |-> xs] :
        xs \in { << >>,
                 <<SeqItem(<<"a">>), SeqItem(<<"b">>)>>,
                 <<SeqItem(<<"browser", "firefox">>)>>,
                 <<SeqItem(<<"browser", "firefox">>), SeqItem(<<"a", "b", "c">>)>>,
                 <<NumberItem>> }} \cup
    {[type |-> "str", mapping |-> << >>, items |-> xs] :
        xs \in { << >>, <<SeqItem(<<"h">>), SeqItem(<<"i">>)>> }} \cup
    {[type |-> "int", mapping |-> << >>, items |-> << >>]}

\* the states of config.yaml: absent, present but not readable, empty (or
\* only comments), not valid YAML, or a valid document
ConfigFiles ==
    {[state |-> st, doc |-> [type |-> "none", mapping |-> << >>, items |-> << >>]] :
        st \in {"absent", "unreadable", "empty", "invalid"}} \cup
    {[state |-> "document", doc |-> d] : d \in Documents}

\* dict.update(other) for a mapping
update_mapping(result, m) ==
    [k \in DOMAIN result \cup DOMAIN m |-> IF k \in DOMAIN m THEN m[k] ELSE result[k]]

\* dict.update(other) for an iterable of key/value pairs: the first element
\* that is no sequence raises TypeError, the first one whose length is not 2
\* raises ValueError
RECURSIVE update_pairs(_, _)
update_pairs(result, items) ==
    IF items = << >> THEN [raised |-> "none", value |-> result]
    ELSE LET e == Head(items) IN
         IF ~e.iterable THEN [raised |-> "TypeError", value |-> << >>]
         ELSE IF Len(e.items) # 2 THEN [raised |-> "ValueError", value |-> << >>]
         ELSE update_pairs(update_mapping(result, e.items[1] :> StrV(e.items[2])),
                           Tail(items))

\* BookmarkFileManager.read_config: the exception that leaves the call
\* ("none" when it returns) and the returned mapping
read_config(f) ==
    IF f.state = "absent" THEN [raised |-> "none", value |-> default_config]
    ELSE IF f.state = "unreadable" THEN [raised |-> "none", value |-> default_config]
    ELSE IF f.state = "invalid" THEN [raised |-> "none", value |-> default_config]
    ELSE IF f.state = "empty" THEN [raised |-> "none", value |-> default_config]
    ELSE IF f.doc.type = "mapping"
    THEN [raised |-> "none", value |-> update_mapping(default_config, f.doc.mapping)]
    ELSE IF f.doc.type = "int" THEN [raised |-> "TypeError", value |-> << >>]
    ELSE update_pairs(default_config, f.doc.items)

InitConfig ==
    /\ CodecIdle
    /\ StoreIdle
    /\ FaultIdle /\ MultiIdle /\ DisplayIdle /\ SelectIdle
    /\ TagsIdle /\ CreatorIdle /\ LaunchIdle /\ RaceIdle
    /\ configFile \in ConfigFiles
    /\ config = << >>

\* file_manager.read_config()
ReadConfig ==
    /\ config = << >>
    /\ config' = <<read_config(configFile)>>
    /\ UNCHANGED configFile
    /\ UNCHANGED <<codecVars, storeVars, faultVars, multiVars, displayVars, selectVars>>
    /\ UNCHANGED <<tagsVars, creatorVars, launchVars, raceVars>>

NextConfig == ReadConfig

SpecConfig == InitConfig /\ [][NextConfig]_vars

---------------------------------------------------------------------------
(* BookmarkCreator: the interactive creation workflow (bookmark_creator.py) *)

\* number of answers the user gives to the name prompt in one run
MaxNameTries == 2

\* what input() does at a prompt: it raises KeyboardInterrupt or EOFError, or
\* returns the text the user typed, without its line break
Cancel == [cancel |-> TRUE, text |-> << >>]
Typed(text) == [cancel |-> FALSE, text |-> text]

\* answers to the name prompt: a cancel, nothing, a blank, a name with a
\* pipe, an indented name, a name of two words
NameEntries ==
    { Cancel, Typed(<< >>), Typed(<<" ">>), Typed(<<"a", "|">>),
      Typed(<<" ", "a", "b">>), Typed(<<"b", " ", "a">>) }

\* answers to the url prompt: a cancel, a url with a blank in front, a url
\* with a pipe
UrlEntries == { Cancel, Typed(<<" ", "a">>), Typed(<<"a", "|", "b">>) }

\* answers to the description prompt: a cancel, nothing, a description
DescriptionEntries == { Cancel, Typed(<< >>), Typed(<<"b", " ">>) }

\* answers to the tags prompt: a cancel, nothing, two tags
TagsEntries == { Cancel, Typed(<< >>), Typed(<<"b", ",", " ", "A">>) }

\* what the fzf --multi process can do with the tags it is given: print the
\* first tag, print all tags, or exit with 130 when the user cancels
FzfMultiOutcomes ==
    { [outcome |-> "selected", all |-> FALSE],
      [outcome |-> "selected", all |-> TRUE],
      [outcome |-> "cancelled", all |-> FALSE] }

\* _get_bookmark_name that accepts every answer that is not empty
get_bookmark_name_unchecked(e) ==
    IF e.cancel THEN [kind |-> "None", name |-> << >>, printed |-> << >>]
    ELSE LET name == Strip(e.text) IN
         IF name = << >>
         THEN [kind |-> "continue", name |-> << >>,
               printed |-> <<"Name cannot be empty.">>]
         ELSE [kind |-> "return", name |-> name, printed |-> << >>]

\* BookmarkCreator._get_bookmark_name, one turn of its loop for the answer e:
\* it returns None, prints a message and asks again, or returns the name
get_bookmark_name(e) ==
    IF e.cancel THEN [kind |-> "None", name |-> << >>, printed |-> << >>]
    ELSE LET name == Strip(e.text) IN
         IF name = << >>
         THEN [kind |-> "continue", name |-> << >>,
               printed |-> <<"Name cannot be empty.">>]
         ELSE IF Contains(name, "|")
         THEN [kind |-> "continue", name |-> << >>,
               printed |-> <<"Name cannot contain pipe characters (|). Please try again.">>]
         ELSE [kind |-> "return", name |-> name, printed |-> << >>]

\* BookmarkCreator._get_bookmark_url
get_bookmark_url(e) == IF e.cancel THEN << >> ELSE Strip(e.text)

\* BookmarkCreator._get_bookmark_description
get_bookmark_description(e) == IF e.cancel THEN << >> ELSE Strip(e.text)

\* FZFInterface.select_tags when the fzf process does f
select_tags(available_tags, f) ==
    IF available_tags = << >> THEN << >>
    ELSE LET stdout_text ==
                 IF f.outcome # "selected" THEN << >>
                 ELSE IF f.all THEN Terminated(available_tags)
                 ELSE Terminated(<<available_tags[1]>>)
             pieces == Split(Strip(stdout_text), "\n")
             kept == SelectSeq(pieces, LAMBDA tag : Strip(tag) # << >>)
         IN IF f.outcome = "selected"
            THEN [i \in 1..Len(kept) |-> Strip(kept[i])]
            ELSE << >>

\* TagInput.get_tags_input
get_tags_input(available_tags, e, f) ==
    LET user_input == Strip(e.text) IN
    IF user_input = << >> /\ available_tags # << >>
    THEN Join(select_tags(available_tags, f), ",")
    ELSE user_input

\* BookmarkCreator._get_bookmark_tags
get_bookmark_tags(tags_file, e, f) ==
    IF e.cancel THEN << >> ELSE get_tags_input(read_tags(tags_file), e, f)

\* the end of create_bookmark that returns False after it saved the record
save_bookmark_unreported(name, url, description, tags, text, tags_file) ==
    LET bookmark == Bookmark(name, url, description, tags) IN
    [ret |-> "False", content |-> add_bookmark(text, bookmark),
     bookmark |-> <<bookmark>>, printed |-> << >>, tags_file |-> tags_file]

\* BookmarkCreator.create_bookmark from the construction of the record to the
\* return: the returned value, the text of the bookmark file, the record
\* saved, the messages printed and the tags file
save_bookmark(name, url, description, tags, text, tags_file) ==
    LET bookmark == Bookmark(name, url, description, tags) IN
    IF ~IsBookmark(bookmark)
    THEN [ret |-> "False", content |-> text, bookmark |-> << >>,
          printed |-> <<"Error creating bookmark">>, tags_file |-> tags_file]
    ELSE LET split == Split(bookmark.tags, ",")
             tag_list == [i \in 1..Len(split) |-> Strip(split[i])]
         IN [ret |-> "True",
             content |-> add_bookmark(text, bookmark),
             bookmark |-> <<bookmark>>,
             printed |-> <<"Bookmark added successfully!">>,
             tags_file |-> IF bookmark.tags # << >>
                           THEN update_tags(tags_file, tag_list)
                           ELSE tags_file]

\* bookmark files the workflow starts on: empty, one record, and a
\* hand-written line without its line break
CreatorContents ==
    { << >>, <<"A", "|", "b", "|", "|", "\n">>, <<"a", "|", "b">> }

\* nothing answered yet
NoEntries ==
    [typed |-> << >>, name |-> << >>, url |-> << >>, description |-> << >>,
     cancelled |-> {}]

\* the state before create_bookmark is called
InitCreator ==
    /\ CodecIdle
    /\ FaultIdle /\ MultiIdle /\ DisplayIdle /\ SelectIdle
    /\ ConfigIdle /\ LaunchIdle /\ RaceIdle
    /\ \/ dirExists \in BOOLEAN /\ fileExists = FALSE /\ content = << >>
       \/ dirExists = TRUE /\ fileExists = TRUE /\ content \in CreatorContents
    /\ origin = [dir |-> dirExists, exists |-> fileExists, content |-> content]
    /\ op = NoCall
    /\ pre = [dir |-> dirExists, exists |-> fileExists, content |-> content,
              ret |-> << >>, stdout |-> << >>, sinceRead |-> -1]
    /\ ret = << >>
    /\ stdout = << >>
    /\ added = << >>
    /\ sinceRead = -1
    /\ tagsFile \in {NoTagsFile,
                     [dir |-> TRUE, exists |-> TRUE, content |-> <<"b", "\n", "a", "\n">>]}
    /\ tagOp = [name |-> "init", arg |-> << >>]
    /\ tagRet = << >>
    /\ tagPre = tagsFile
    /\ tagHist = [origin |-> tagsFile, passed |-> {}, calls |-> 0]
    /\ cpc = "start"
    /\ centered = NoEntries
    /\ cret = "none"
    /\ cout = << >>
    /\ cstart = origin

\* what no step of the workflow touches
CreatorFrame ==
    /\ UNCHANGED <<op, pre, ret, stdout, origin, sinceRead>>
    /\ UNCHANGED <<tagOp, tagRet, tagPre, tagHist>>
    /\ UNCHANGED <<codecVars, faultVars, multiVars, displayVars, selectVars>>
    /\ UNCHANGED <<configVars, launchVars, raceVars>>

\* create_bookmark up to the name prompt: ensure_base_directory and
\* ensure_file_exists
CreateBookmark ==
    /\ cpc = "start"
    /\ LET f == ensure_file_exists([dir |-> dirExists, exists |-> fileExists,
                                     content |-> content])
       IN dirExists' = f.dir /\ fileExists' = f.exists /\ content' = f.content
    /\ tagsFile' = [tagsFile EXCEPT !.dir = TRUE]
    /\ cpc' = "name"
    /\ UNCHANGED <<added, centered, cret, cout, cstart>>
    /\ CreatorFrame

\* the user answers the name prompt
EnterName ==
    \E e \in NameEntries :
        LET r == get_bookmark_name(e) IN
        /\ cpc = "name"
        /\ Len(centered.typed) < MaxNameTries
        /\ centered' = [centered EXCEPT
                           !.typed = Append(@, e),
                           !.name = r.name,
                           !.cancelled = IF e.cancel THEN @ \cup {"name"} ELSE @]
        /\ cout' = cout \o r.printed
        /\ cpc' = CASE r.kind = "None" -> "done"
                    [] r.kind = "continue" -> "name"
                    [] r.kind = "return" -> "url"
        /\ cret' = IF r.kind = "None" THEN "False" ELSE cret
        /\ UNCHANGED <<dirExists, fileExists, content, added, tagsFile, cstart>>
        /\ CreatorFrame

\* the user answers the url prompt
EnterUrl ==
    \E e \in UrlEntries :
        /\ cpc = "url"
        /\ centered' = [centered EXCEPT
                           !.url = get_bookmark_url(e),
                           !.cancelled = IF e.cancel THEN @ \cup {"url"} ELSE @]
        /\ cpc' = "description"
        /\ UNCHANGED <<dirExists, fileExists, content, added, tagsFile>>
        /\ UNCHANGED <<cret, cout, cstart>>
        /\ CreatorFrame

\* the user answers the description prompt
EnterDescription ==
    \E e \in DescriptionEntries :
        /\ cpc = "description"
        /\ centered' = [centered EXCEPT
                           !.description = get_bookmark_description(e),
                           !.cancelled = IF e.cancel THEN @ \cup {"description"} ELSE @]
        /\ cpc' = "tags"
        /\ UNCHANGED <<dirExists, fileExists, content, added, tagsFile>>
        /\ UNCHANGED <<cret, cout, cstart>>
        /\ CreatorFrame

\* the user answers the tags prompt, and create_bookmark runs to its return
EnterTags ==
    \E e \in TagsEntries, f \in FzfMultiOutcomes :
        LET tags == get_bookmark_tags(tagsFile, e, f)
            r == save_bookmark(centered.name, centered.url, centered.description,
                               tags, content, tagsFile)
        IN
        /\ cpc = "tags"
        /\ centered' = [centered EXCEPT
                           !.cancelled = IF e.cancel THEN @ \cup {"tags"} ELSE @]
        /\ content' = r.content
        /\ added' = added \o r.bookmark
        /\ tagsFile' = r.tags_file
        /\ cout' = cout \o r.printed
        /\ cret' = r.ret
        /\ cpc' = "done"
        /\ UNCHANGED <<dirExists, fileExists, cstart>>
        /\ CreatorFrame

NextCreator ==
    CreateBookmark \/ EnterName \/ EnterUrl \/ EnterDescription \/ EnterTags

SpecCreator == InitCreator /\ [][NextCreator]_vars

---------------------------------------------------------------------------
(* BookmarkLauncher.launch_bookmark (bookmark_launcher.py) *)

\* bookmark files the launcher reads: empty; two records with the same
\* description; a record with an empty description; two records whose urls
\* differ by a trailing blank; a record with an empty url; a malformed line
\* followed by a record
LaunchContents ==
    { << >>,
      Terminated(<< <<"A", "|", "a", "|", "b", "|">>, <<"B", "|", "b", "|", "b", "|">> >>),
      Terminated(<< <<"A", "|", "a", "|", "|">> >>),
      Terminated(<< <<"A", "|", "a", "|", "|">>, <<"A", "|", "a", " ", "|", "|">> >>),
      Terminated(<< <<"A", "|", "|", "|">> >>),
      Terminated(<< <<"a", "|", "b">>, <<"B", "|", "b", "|", "|", "a">> >>) }

\* a config.yaml that holds the mapping m
MappingFile(m) ==
    [state |-> "document", doc |-> [type |-> "mapping", mapping |-> m, items |-> << >>]]

\* the config files the launcher runs with: none, one that shows name and
\* url, one that shows the description, one that sets only the browser, and
\* a document that is a number
LaunchConfigs ==
    { [state |-> "absent", doc |-> [type |-> "none", mapping |-> << >>, items |-> << >>]],
      MappingFile([display_fields |-> ListV(<<"name", "url">>)]),
      MappingFile([display_fields |-> ListV(<<"description">>)]),
      MappingFile([browser |-> StrV("firefox")]),
      [state |-> "document", doc |-> [type |-> "int", mapping |-> << >>, items |-> << >>]] }

\* what the browser does with the url: it opens it, or the command fails
BrowserOutcomes == {"opened", "failed"}

\* index of the first element of lines that equals s, 0 when there is none
RECURSIVE IndexOf(_, _, _)
IndexOf(lines, s, i) ==
    IF i > Len(lines) THEN 0
    ELSE IF lines[i] = s THEN i
    ELSE IndexOf(lines, s, i + 1)

\* BookmarkLauncher._launch_url: the urls handed to the browser and the
\* returned value
launch_url(url, browser) ==
    IF url = << >> THEN [launched |-> << >>, ret |-> "False"]
    ELSE [launched |-> <<url>>, ret |-> IF browser = "opened" THEN "True" ELSE "False"]

\* the outcome of launch_bookmark before the selection: no fzf run, nothing
\* launched
NotLaunched(r, bookmarks, lines) ==
    [ret |-> r, bookmarks |-> bookmarks, lines |-> lines, selected |-> << >>,
     launched |-> << >>]

\* BookmarkLauncher.launch_bookmark when the fzf process does f and the
\* browser does `browser`: the returned value ("raised" when an exception
\* leaves the call), the records read, the display lines, the result of the
\* selection and the urls handed to the browser
launch_bookmark(exists, text, cfile, f, browser) ==
    LET bookmarks == read_bookmarks(exists, text).bookmarks
        cfg == read_config(cfile)
    IN
    IF bookmarks = << >> THEN NotLaunched("False", bookmarks, << >>)
    ELSE IF cfg.raised # "none" THEN NotLaunched("raised", bookmarks, << >>)
    ELSE LET fields == cfg.value["display_fields"].v
             lines == [i \in 1..Len(bookmarks) |->
                          matches_display_format(bookmarks[i], fields)]
             selected_line == select_bookmark(lines, f)
             i == IF selected_line = None THEN 0
                  ELSE IndexOf(lines, selected_line.value, 1)
         IN IF selected_line = None \/ selected_line.value = << >>
            THEN [NotLaunched("False", bookmarks, lines) EXCEPT
                     !.selected = <<selected_line>>]
            ELSE IF i = 0
            THEN [NotLaunched("False", bookmarks, lines) EXCEPT
                     !.selected = <<selected_line>>]
            ELSE LET l == launch_url(bookmarks[i].url, browser) IN
                 [ret |-> l.ret, bookmarks |-> bookmarks, lines |-> lines,
                  selected |-> <<selected_line>>, launched |-> l.launched]

\* the state before launch_bookmark is called
InitLaunch ==
    /\ CodecIdle
    /\ FaultIdle /\ MultiIdle /\ DisplayIdle
    /\ TagsIdle /\ CreatorIdle /\ RaceIdle
    /\ \/ dirExists \in BOOLEAN /\ fileExists = FALSE /\ content = << >>
       \/ dirExists = TRUE /\ fileExists = TRUE /\ content \in LaunchContents
    /\ origin = [dir |-> dirExists, exists |-> fileExists, content |-> content]
    /\ op = NoCall
    /\ pre = [dir |-> dirExists, exists |-> fileExists, content |-> content,
              ret |-> << >>, stdout |-> << >>, sinceRead |-> -1]
    /\ ret = << >>
    /\ stdout = << >>
    /\ added = << >>
    /\ sinceRead = -1
    /\ configFile \in LaunchConfigs
    /\ config = << >>
    /\ bookmark_lines = << >>
    /\ fzf = [outcome |-> "none", pick |-> 0]
    /\ selected = << >>
    /\ launched = << >>
    /\ launchRet = "none"

\* launcher.launch_bookmark(); fzf is started only for a list of display lines
LaunchBookmark ==
    /\ launchRet = "none"
    /\ \E n \in 0..Len(read_bookmarks(fileExists, content).bookmarks),
          o \in {"selected", "cancelled", "error", "exception"},
          browser \in BrowserOutcomes :
          LET f == IF o = "selected" THEN [outcome |-> o, pick |-> n]
                   ELSE [outcome |-> o, pick |-> 0]
              r == launch_bookmark(fileExists, content, configFile, f, browser)
          IN
          /\ (o = "selected") = (n > 0)
          /\ fzf' = IF r.lines = << >> THEN [outcome |-> "not_run", pick |-> 0] ELSE f
          /\ ret' = r.bookmarks
          /\ bookmark_lines' = r.lines
          /\ selected' = r.selected
          /\ launched' = r.launched
          /\ launchRet' = r.ret
    /\ dirExists' = TRUE
    /\ UNCHANGED <<fileExists, content, op, pre, stdout, added, origin, sinceRead>>
    /\ UNCHANGED <<configFile, config>>
    /\ UNCHANGED <<codecVars, faultVars, multiVars, displayVars>>
    /\ UNCHANGED <<tagsVars, creatorVars, raceVars>>

NextLaunch == LaunchBookmark

SpecLaunch == InitLaunch /\ [][NextLaunch]_vars

---------------------------------------------------------------------------
(* Two processes that run update_tags on one tags file (file_manager.py) *)

Procs == {1, 2}

\* the tags files the two processes start on: none, one tag, two tags
RaceContents == { <<"b", "\n">>, <<"a", "\n", "b", "b", "\n">> }

\* the lists the processes pass: empty, one new tag, a known and a new tag
RaceTagLists ==
    { << >>,
      << <<"a", "b">> >>,
      << <<"B">>, <<"a", "a">> >>,
      << <<" ", "A", "a">>, <<"b", "a">> >> }

\* each process is about to call update_tags with its list
InitRace ==
    /\ CodecIdle
    /\ StoreIdle
    /\ FaultIdle /\ MultiIdle /\ DisplayIdle /\ SelectIdle
    /\ ConfigIdle /\ CreatorIdle /\ LaunchIdle
    /\ tagsFile \in {NoTagsFile} \cup
                    {[dir |-> TRUE, exists |-> TRUE, content |-> c] : c \in RaceContents}
    /\ tagOp = [name |-> "init", arg |-> << >>]
    /\ tagRet = << >>
    /\ tagPre = tagsFile
    /\ tagHist = [origin |-> tagsFile, passed |-> {}, calls |-> 0]
    /\ \E lists \in [Procs -> RaceTagLists] :
          procs = [proc |-> [p \in Procs |->
                                [pc |-> "read", new_tags |-> lists[p],
                                 existing_tags |-> << >>]],
                   order |-> << >>]

\* process p enters update_tags: it returns for an empty list, else it reads
\* the tags file
RaceRead(p) ==
    LET me == procs.proc[p] IN
    /\ me.pc = "read"
    /\ procs' = [procs EXCEPT
                    !.proc[p] = IF me.new_tags = << >>
                                THEN [me EXCEPT !.pc = "done"]
                                ELSE [me EXCEPT !.pc = "write",
                                                !.existing_tags = read_tags(tagsFile)],
                    !.order = Append(@, [p |-> p, step |-> "read"])]
    /\ UNCHANGED tagsVars
    /\ UNCHANGED <<codecVars, storeVars, faultVars, multiVars, displayVars, selectVars>>
    /\ UNCHANGED <<configVars, creatorVars, launchVars>>

\* process p opens the tags file with mode "w", writes the merged tags and
\* closes it
RaceWrite(p) ==
    LET me == procs.proc[p] IN
    /\ me.pc = "write"
    /\ tagsFile' = write_tags(me.existing_tags, me.new_tags)
    /\ procs' = [procs EXCEPT
                    !.proc[p] = [me EXCEPT !.pc = "done"],
                    !.order = Append(@, [p |-> p, step |-> "write"])]
    /\ UNCHANGED <<tagOp, tagRet, tagPre, tagHist>>
    /\ UNCHANGED <<codecVars, storeVars, faultVars, multiVars, displayVars, selectVars>>
    /\ UNCHANGED <<configVars, creatorVars, launchVars>>

NextRace == \E p \in Procs : RaceRead(p) \/ RaceWrite(p)

SpecRace == InitRace /\ [][NextRace]_vars

---------------------------------------------------------------------------
(* Claims about the codec, checked under SpecCodec *)

\* the state after Bookmark(...), to_line() and from_line() were called in turn
RoundTripDone == args # << >> /\ IsBookmark(cur) /\ line # << >> /\ parsed # NoValue

HasLeadingSpace(s) == s # << >> /\ IsSpace(Head(s))

\* C1 as stated: for every (name, url, description, tags) whose name has no '|',
\* from_line(Bookmark(...).to_line()) succeeds and equals the constructed record
\* in all four fields.
C1_RoundTripAnyFields ==
    RoundTripDone =>
        /\ IsBookmark(parsed)
        /\ parsed.name = cur.name
        /\ parsed.url = cur.url
        /\ parsed.description = cur.description
        /\ parsed.tags = cur.tags

\* C1 amended: the round trip holds when none of name, url, description and
\* tags contains '|' and name does not start with whitespace.
C1_RoundTrip ==
    (/\ RoundTripDone
     /\ ~Contains(args[1].url, "|")
     /\ ~Contains(args[1].description, "|")
     /\ ~Contains(args[1].tags, "|")
     /\ ~HasLeadingSpace(args[1].name)) =>
        /\ IsBookmark(parsed)
        /\ parsed.name = cur.name
        /\ parsed.url = cur.url
        /\ parsed.description = cur.description
        /\ parsed.tags = cur.tags

\* a round trip of a record whose name and tags were changed by normalization
C1_Witness ==
    /\ RoundTripDone
    /\ parsed = cur
    /\ cur.name # args[1].name
    /\ cur.tags # args[1].tags
    /\ cur.url # << >>

\* C5: Bookmark(...) raises the name ValueError exactly when name contains '|';
\* every other input is accepted with url and description stored verbatim; no
\* constructed or parsed record has a name containing '|'.
C5_ConstructValidation ==
    /\ (args # << >> /\ cur # NoValue) =>
          /\ (cur.kind = NameError) <=> Contains(args[1].name, "|")
          /\ IsBookmark(cur) <=> ~Contains(args[1].name, "|")
          /\ IsBookmark(cur) =>
                /\ cur.url = args[1].url
                /\ cur.description = args[1].description
    /\ IsBookmark(cur) => ~Contains(cur.name, "|")
    /\ IsBookmark(parsed) => ~Contains(parsed.name, "|")
    /\ parsed.kind # NameError

\* a rejected construction whose url is acceptable
C5_Witness ==
    /\ args # << >>
    /\ cur.kind = NameError
    /\ Contains(args[1].name, "|")
    /\ args[1].url = <<"a">>

\* an accepted construction with empty url, description and tags
C5_WitnessAccepted ==
    /\ args # << >>
    /\ IsBookmark(cur)
    /\ args[1].url = << >> /\ args[1].description = << >> /\ args[1].tags = << >>

\* the tags of a stored tags string
TagsOf(t) == IF t = << >> THEN << >> ELSE Split(t, ",")

\* C6: the tags of a constructed record are a comma-joined list of non-empty,
\* lower-case, trimmed tags without duplicates, in strictly ascending order;
\* they are the trimmed lower-cased non-blank tags of the input, and an input
\* without a non-blank tag gives "".
C6_TagsNormalized ==
    (args # << >> /\ IsBookmark(cur)) =>
        LET ts == TagsOf(cur.tags)
            given == Split(args[1].tags, ",")
        IN /\ cur.tags = Join(ts, ",")
           /\ \A i \in 1..Len(ts) :
                 /\ ts[i] # << >>
                 /\ Lower(ts[i]) = ts[i]
                 /\ Strip(ts[i]) = ts[i]
           /\ \A i \in 1..(Len(ts) - 1) : StrLess(ts[i], ts[i + 1])
           /\ \A i, j \in 1..Len(ts) : ts[i] = ts[j] => i = j
           /\ {ts[i] : i \in 1..Len(ts)} =
                 {Lower(Strip(given[i])) : i \in 1..Len(given)} \ {<< >>}
           /\ (\A i \in 1..Len(given) : Strip(given[i]) = << >>) => cur.tags = << >>

\* tags given in descending order come out sorted
C6_Witness ==
    /\ args # << >>
    /\ IsBookmark(cur)
    /\ args[1].tags = <<"b", ",", "a">>
    /\ cur.tags = <<"a", ",", "b">>

\* the state after from_line was called on a raw line
ParsedInput == args = << >> /\ line # << >> /\ parsed # NoValue

\* C7: for a line without leading or trailing whitespace that splits on '|'
\* into four parts p1..p4, from_line(line) = Bookmark(p1, p2, p3, p4): the name
\* is title-cased and the tags are normalized.
C7_ParseNormalizes ==
    (/\ ParsedInput
     /\ Strip(line[1]) = line[1]
     /\ Len(Split(line[1], "|")) = 4) =>
        LET p == Split(line[1], "|") IN
        /\ parsed = Bookmark(p[1], p[2], p[3], p[4])
        /\ IsBookmark(parsed)
        /\ parsed.name = Title(p[1])
        /\ parsed.url = p[2]
        /\ parsed.description = p[3]
        /\ parsed.tags = normalize_tags(p[4])

\* a stored line with a lower-case name and unsorted tags is returned normalized
C7_Witness ==
    /\ ParsedInput
    /\ line[1] = <<"|", "|", "|", "b", ",", "a">>
    /\ parsed.tags = <<"a", ",", "b">>

\* a stored line with a lower-case name and upper-case tags is returned normalized
C7_WitnessName ==
    /\ ParsedInput
    /\ line[1] = <<"a", "b", "|", "|", "|", "A">>
    /\ parsed.name = <<"A", "b">>
    /\ parsed.tags = <<"a">>

\* C8: from_line raises the format error exactly when the line does not split
\* on '|' into four parts; the empty line and lines with fewer or more fields
\* fail, every line with exactly three '|' succeeds.
C8_FormatError ==
    (line # << >> /\ parsed # NoValue) =>
        /\ (parsed.kind = FormatError) <=> (Len(Split(line[1], "|")) # 4)
        /\ (parsed.kind = FormatError) => parsed.got = Count(line[1], "|") + 1
        /\ (Count(line[1], "|") = 3) <=> IsBookmark(parsed)
        /\ line[1] = << >> => parsed.kind = FormatError

\* a line with five fields is rejected
C8_Witness ==
    /\ ParsedInput
    /\ Count(line[1], "|") = 4
    /\ parsed.kind = FormatError
    /\ parsed.got = 5

\* the state after to_line was called on a constructed record
Serialized == args # << >> /\ IsBookmark(cur) /\ line # << >>

\* C9 as stated: for every record that can be constructed, to_line returns a
\* line with exactly three '|', i.e. four '|'-separated fields.
C9_AlwaysFourFields ==
    Serialized =>
        /\ Count(line[1], "|") = 3
        /\ Len(Split(line[1], "|")) = 4

\* C9 amended: to_line returns name, url, description and tags in this order
\* with one '|' between neighbours; the line has exactly four '|'-separated
\* fields (three '|') when url, description and tags contain no '|', and more
\* than four otherwise.
C9_FourFields ==
    Serialized =>
        LET free == /\ ~Contains(cur.url, "|")
                    /\ ~Contains(cur.description, "|")
                    /\ ~Contains(cur.tags, "|")
        IN /\ line[1] = Join(<<cur.name, cur.url, cur.description, cur.tags>>, "|")
           /\ free => Split(line[1], "|") = <<cur.name, cur.url, cur.description, cur.tags>>
           /\ free <=> Count(line[1], "|") = 3
           /\ ~free => Len(Split(line[1], "|")) > 4

\* a serialized record with three different non-empty fields
C9_Witness ==
    /\ Serialized
    /\ cur.name = <<"A">>
    /\ cur.url = <<"b">>
    /\ cur.description = <<" ">>
    /\ Split(line[1], "|") = <<cur.name, cur.url, cur.description, cur.tags>>

---------------------------------------------------------------------------
(* Claims about the store, checked under Spec *)

AfterRead == op.name = "read_bookmarks"
AfterAdd == op.name = "add_bookmark"

\* a line of the file that is not blank after trimming and has four fields
WellFormedLine(l) == Strip(l) # << >> /\ Len(Split(Strip(l), "|")) = 4

\* a line of the file that is not blank after trimming and has another field count
MalformedLine(l) == Strip(l) # << >> /\ Len(Split(Strip(l), "|")) # 4

\* the record a well-formed line stands for
RecordOfLine(l) ==
    LET p == Split(Strip(l), "|") IN Bookmark(p[1], p[2], p[3], p[4])

\* C2: read_bookmarks on an existing file returns exactly the records of the
\* lines that are non-blank after trimming and have four '|'-separated fields,
\* in file order; blank and malformed lines give no record and do not stop
\* the read.
C2_ReadWellFormedInOrder ==
    (AfterRead /\ fileExists) =>
        LET good == SelectSeq(FileLines(content), WellFormedLine) IN
        /\ Len(ret) = Len(good)
        /\ \A i \in 1..Len(good) : ret[i] = RecordOfLine(good[i])

\* a read that returned a record from a line that follows a malformed line
C2_Witness ==
    /\ AfterRead
    /\ fileExists
    /\ Len(ret) >= 2
    /\ LET lines == FileLines(content) IN
       \E i, j, k \in 1..Len(lines) :
          /\ i < j /\ j < k
          /\ WellFormedLine(lines[i])
          /\ MalformedLine(lines[j])
          /\ WellFormedLine(lines[k])

EndsLine(text) == text = << >> \/ text[Len(text)] = "\n"

\* C3 as stated: add_bookmark(b) leaves the old content in place, followed by
\* b.to_line() and one newline, and adds exactly one line.
C3_AppendsExactlyOneLine ==
    AfterAdd =>
        /\ content = pre.content \o to_line(op.arg) \o <<"\n">>
        /\ Len(FileLines(content)) = Len(FileLines(pre.content)) + 1

\* C3 amended: the content after add_bookmark(b) is the content before
\* (empty if the file was absent) followed by b.to_line() and one newline;
\* this adds exactly one line when the old content is empty or ends with a
\* newline and b's fields contain no line break.
C3_AppendOnly ==
    AfterAdd =>
        /\ fileExists /\ dirExists
        /\ ~pre.exists => pre.content = << >>
        /\ content = pre.content \o to_line(op.arg) \o <<"\n">>
        /\ SubSeq(content, 1, Len(pre.content)) = pre.content
        /\ (EndsLine(pre.content) /\ ~Contains(to_line(op.arg), "\n")) =>
              FileLines(content) = FileLines(pre.content) \o <<to_line(op.arg) \o <<"\n">>>>

\* an append of a one-line record to a file that already holds a complete line
C3_Witness ==
    /\ AfterAdd
    /\ pre.exists
    /\ pre.content # << >>
    /\ EndsLine(pre.content)
    /\ ~Contains(to_line(op.arg), "\n")
    /\ Len(FileLines(content)) = Len(FileLines(pre.content)) + 1

\* no field of b contains '|' or a line break
PlainRecord(b) ==
    /\ ~Contains(b.name, "|") /\ ~Contains(b.name, "\n")
    /\ ~Contains(b.url, "|") /\ ~Contains(b.url, "\n")
    /\ ~Contains(b.description, "|") /\ ~Contains(b.description, "\n")
    /\ ~Contains(b.tags, "|") /\ ~Contains(b.tags, "\n")

StartedEmpty == origin.content = << >>

\* C4 as stated: starting from an absent or empty file, after n add_bookmark
\* calls with records without '|' and line breaks, read_bookmarks returns
\* exactly these n records in the order added, duplicates included.
C4_ReadReturnsAdded ==
    (/\ AfterRead
     /\ StartedEmpty
     /\ \A i \in 1..Len(added) : PlainRecord(added[i])) =>
        ret = added

\* C4 amended: the same, for records whose name does not start with
\* whitespace.
C4_ReadReturnsAddedNoIndent ==
    (/\ AfterRead
     /\ StartedEmpty
     /\ \A i \in 1..Len(added) :
           PlainRecord(added[i]) /\ ~HasLeadingSpace(added[i].name)) =>
        /\ Len(ret) = Len(added)
        /\ \A i \in 1..Len(added) : ret[i] = added[i]
        /\ stdout = << >>

\* a read after the same record was added twice returns it twice
C4_Witness ==
    /\ AfterRead
    /\ ~origin.exists
    /\ Len(added) = 2
    /\ added[1] = added[2]
    /\ added[1].tags # << >>
    /\ ret = added

\* a read after two different records were added returns them in call order
C4_WitnessOrder ==
    /\ AfterRead
    /\ StartedEmpty
    /\ Len(added) = 2
    /\ added[1] # added[2]
    /\ ret = added

HasPipeField(b) == Contains(b.url, "|") \/ Contains(b.description, "|")

LastAdded == added[Len(added)]

\* the state after read_bookmarks, add_bookmark(b), read_bookmarks, with b a
\* record with '|' in url or description
ReadAroundPipeAdd ==
    /\ AfterRead
    /\ pre.sinceRead = 1
    /\ added # << >>
    /\ HasPipeField(LastAdded)

\* the text of the file when the last add_bookmark was called
BeforeLastAdd == SubSeq(content, 1, Len(content) - Len(to_line(LastAdded)) - 1)

IsPrefix(xs, ys) == Len(xs) <= Len(ys) /\ SubSeq(ys, 1, Len(xs)) = xs

\* C10 as stated: a record with '|' in url or description is accepted and
\* appended; on the next read it is not returned, a malformed-line warning is
\* emitted for it, and the other lines of the file are still returned.
C10_PipeRecordSkipped ==
    ReadAroundPipeAdd =>
        /\ \A i \in 1..Len(ret) : ret[i] # LastAdded
        /\ Len(stdout) > Len(pre.stdout)
        /\ IsPrefix(pre.ret, ret)

\* C10 amended: the same, when the record's fields contain no line break and
\* the file was absent, empty or ended with a newline when the record was
\* added; the read then returns what the read before the add returned and
\* prints one more warning, for the last line, with the field count found.
C10_PipeRecordSkippedOneLine ==
    (/\ ReadAroundPipeAdd
     /\ ~Contains(to_line(LastAdded), "\n")
     /\ EndsLine(BeforeLastAdd)) =>
        /\ ret = pre.ret
        /\ \A i \in 1..Len(ret) : ret[i] # LastAdded
        /\ stdout = pre.stdout \o
              <<[line_num |-> Len(FileLines(content)), error |-> FormatError,
                 got |-> Count(to_line(LastAdded), "|") + 1]>>

\* a read that skipped an added record with '|' in its url and still returned
\* the records of the other lines
C10_Witness ==
    /\ ReadAroundPipeAdd
    /\ Contains(LastAdded.url, "|")
    /\ ~Contains(to_line(LastAdded), "\n")
    /\ EndsLine(BeforeLastAdd)
    /\ pre.ret # << >>
    /\ ret = pre.ret
    /\ Len(stdout) = Len(pre.stdout) + 1

---------------------------------------------------------------------------
(* Claims about diagnostics and failures of read_bookmarks *)

\* the 1-based positions in the file of the lines that fail to parse
MalformedPositions(lines) == {i \in 1..Len(lines) : MalformedLine(lines[i])}

\* C11: a read of an existing file prints exactly one warning per line that is
\* non-blank after trimming and fails to parse, in file order; the warning
\* carries the line's 1-based position in the file, blank and malformed lines
\* counted, and the reason (the number of fields found); blank lines and
\* well-formed lines get no warning.
C11_OneWarningPerMalformedLine ==
    (AfterRead /\ fileExists) =>
        LET lines == FileLines(content)
            bad == MalformedPositions(lines)
        IN /\ Len(stdout) = Cardinality(bad)
           /\ {stdout[k].line_num : k \in 1..Len(stdout)} = bad
           /\ \A j, k \in 1..Len(stdout) : j < k => stdout[j].line_num < stdout[k].line_num
           /\ \A k \in 1..Len(stdout) :
                 /\ stdout[k].error = FormatError
                 /\ stdout[k].got = Len(Split(Strip(lines[stdout[k].line_num]), "|"))

\* a read that warned about a malformed line standing after a blank line and
\* before a well-formed one: its warning carries position 2
C11_Witness ==
    /\ AfterRead
    /\ fileExists
    /\ LET lines == FileLines(content) IN
       /\ Len(lines) >= 3
       /\ Strip(lines[1]) = << >>
       /\ MalformedLine(lines[2])
       /\ WellFormedLine(lines[3])
    /\ stdout # << >>
    /\ stdout[1].line_num = 2

ResourceFault == fault.kind \in {"PermissionError", "OSError"}

---------------------------------------------------------------------------
(* Claims about managers and paths, checked under SpecMulti *)

\* the records a file holds: one per well-formed line, in file order
RecordsOf(f) ==
    IF ~f.exists THEN << >>
    ELSE LET good == SelectSeq(FileLines(f.content), WellFormedLine) IN
         [i \in 1..Len(good) |-> RecordOfLine(good[i])]

\* C14: a manager keeps nothing between calls but its path. Every read returns
\* the records of the file at its path as the file is at that call, whoever
\* wrote the lines and whenever, and changes no file; an add through a manager
\* changes no file at another path, so managers bound to different paths never
\* see each other's records.
C14_ReadsCurrentFileOfOwnPath ==
    /\ mop.name = "read_bookmarks" =>
          /\ mret = RecordsOf(files[Binding[mop.mgr]])
          /\ files = mpre
    /\ mop.name = "add_bookmark" =>
          /\ \A p \in Paths \ {Binding[mop.mgr]} : files[p] = mpre[p]
          /\ RecordsOf(files[Binding[mop.mgr]]) =
                Append(RecordsOf(mpre[Binding[mop.mgr]]), mop.arg)

\* m1 reads again after m2, bound to the same path, added a record: the list
\* is one longer than the one m1 got before, while the file of the other path
\* holds a record that m1's list does not contain
C14_Witness ==
    /\ mop = [mgr |-> "m1", name |-> "read_bookmarks", arg |-> NoValue]
    /\ mhist.prevReader = "m1"
    /\ mhist.adder = "m2"
    /\ mhist.seen = mhist.prevSeen + 1
    /\ Len(mret) = mhist.seen
    /\ \E i \in 1..Len(RecordsOf(files["personal"])) :
          \A j \in 1..Len(mret) : mret[j] # RecordsOf(files["personal"])[i]

---------------------------------------------------------------------------
(* Claims about ensure_file_exists, checked under Spec *)

AfterEnsure == op.name = "ensure_file_exists"

\* C15: ensure_file_exists is idempotent. After a call the file and its
\* directory exist; the file is empty when it was absent and keeps its content
\* when it was present; a call that follows a call changes nothing, so any
\* number of calls leaves the file as one call does.
C15_EnsureIdempotent ==
    /\ [](AfterEnsure =>
            /\ dirExists /\ fileExists
            /\ content = IF pre.exists THEN pre.content ELSE << >>)
    /\ [][(AfterEnsure /\ op'.name = "ensure_file_exists") =>
             UNCHANGED <<dirExists, fileExists, content>>]_vars

\* a call on a file that holds the records added before it: nothing is lost
C15_Witness ==
    /\ AfterEnsure
    /\ pre.exists
    /\ pre.content # << >>
    /\ content = pre.content
    /\ added # << >>

\* a call that created the file and its missing directory
C15_WitnessCreated ==
    /\ AfterEnsure
    /\ ~pre.exists /\ ~pre.dir
    /\ dirExists /\ fileExists /\ content = << >>

---------------------------------------------------------------------------
(* Claims about normalization and display, checked under SpecCodec *)

\* C16: tag normalization is idempotent: constructing a record from the
\* fields of a record, its already normalized tags among them, gives the same
\* tags; this holds for constructed and for parsed records.
C16_TagsIdempotent ==
    /\ IsBookmark(cur) =>
          /\ normalize_tags(cur.tags) = cur.tags
          /\ Bookmark(cur.name, cur.url, cur.description, cur.tags).tags = cur.tags
    /\ IsBookmark(parsed) =>
          /\ normalize_tags(parsed.tags) = parsed.tags
          /\ Bookmark(parsed.name, parsed.url, parsed.description, parsed.tags).tags
                = parsed.tags

\* a record whose tags were given unsorted and in upper case: normalization
\* changed them, and two tags are left
C16_Witness ==
    /\ args # << >>
    /\ IsBookmark(cur)
    /\ args[1].tags = <<"b", ",", "A">>
    /\ cur.tags = <<"a", ",", "b">>

\* the name the claim describes: words are separated by whitespace; the first
\* letter of each word is capitalized, every other letter is lower-cased and
\* the other characters are kept
WordCaps(s) ==
    [i \in 1..Len(s) |->
        IF ~IsCased(s[i]) THEN s[i]
        ELSE IF \E j \in 1..(i - 1) :
                   IsCased(s[j]) /\ \A k \in j..(i - 1) : ~IsSpace(s[k])
             THEN LowerCh(s[i])
        ELSE UpperCh(s[i])]

\* a scan from the left: a letter is capitalized when no letter stands directly
\* before it and lower-cased otherwise; the other characters are kept
RECURSIVE LetterRunCaps(_, _)
LetterRunCaps(s, afterLetter) ==
    IF s = << >> THEN << >>
    ELSE LET c == Head(s)
             d == IF ~IsCased(c) THEN c
                  ELSE IF afterLetter THEN LowerCh(c) ELSE UpperCh(c)
         IN <<d>> \o LetterRunCaps(Tail(s), IsCased(c))

\* C17 as stated: the stored name is the input name with the first letter of
\* each whitespace-separated word capitalized and every other letter
\* lower-cased, all other characters unchanged.
C17_TitleCaseByWhitespace ==
    (args # << >> /\ IsBookmark(cur)) => cur.name = WordCaps(args[1].name)

\* C17, amended: the stored name is the input name with the first letter of
\* each maximal run of letters capitalized and every other letter lower-cased,
\* all other characters unchanged: any character that is not a letter, not
\* only whitespace, starts a new word.
C17_TitleCaseByLetterRun ==
    (args # << >> /\ IsBookmark(cur)) => cur.name = LetterRunCaps(args[1].name, FALSE)

\* a name with a comma between two letters: both letters are capitalized
C17_Witness ==
    /\ args # << >>
    /\ IsBookmark(cur)
    /\ args[1].name = <<"a", ",", "b">>
    /\ cur.name = <<"A", ",", "B">>

\* a name in mixed case followed by a blank
C17_WitnessWords ==
    /\ args # << >>
    /\ IsBookmark(cur)
    /\ args[1].name = <<"b", "A", " ">>
    /\ cur.name = <<"B", "a", " ">>

\* C18: every Bookmark record, whether constructed directly or parsed by
\* from_line (as read_bookmarks does for each line), has a non-empty name.
C18_NameNonEmpty ==
    /\ IsBookmark(cur) => cur.name # << >>
    /\ IsBookmark(parsed) => parsed.name # << >>

---------------------------------------------------------------------------
(* Claims about display lines, checked under SpecDisplay *)

\* the value the claim gives to one position of the list
ValueAt(b, f) ==
    CASE f = "name" -> b.name
      [] f = "url" -> b.url
      [] f = "description" -> b.description
      [] f = "tags" -> b.tags
      [] OTHER -> << >>

\* the number of characters of the result that stand before position i
RECURSIVE OffsetOf(_, _, _)
OffsetOf(b, fs, i) ==
    IF i <= 1 THEN 0
    ELSE OffsetOf(b, fs, i - 1) + Len(ValueAt(b, fs[i - 1])) + 1

\* C19: for every list of field names, matches_display_format returns a
\* string made of one value per position of the list, in list order, with one
\* '|' between neighbours: the record's value for a name among name, url,
\* description and tags, the empty string for any other name. The call never
\* fails, and the result has as many positions as the list has names, a
\* repeated name being repeated.
C19_OneValuePerPosition ==
    /\ ENABLED MatchesDisplayFormat \/ shown # << >>
    /\ shown # << >> =>
          LET s == shown[1]
              n == Len(display_fields)
          IN /\ Len(s) = IF n = 0 THEN 0
                         ELSE OffsetOf(cur, display_fields, n) + Len(ValueAt(cur, display_fields[n]))
             /\ \A i \in 1..n :
                   /\ SubSeq(s, OffsetOf(cur, display_fields, i) + 1,
                             OffsetOf(cur, display_fields, i) + Len(ValueAt(cur, display_fields[i])))
                         = ValueAt(cur, display_fields[i])
                   /\ i > 1 => s[OffsetOf(cur, display_fields, i)] = "|"
             /\ (n > 0 /\ \A i \in 1..n : ~Contains(ValueAt(cur, display_fields[i]), "|")) =>
                   Len(Split(s, "|")) = n

\* the list name, invalid, name on a record with a name: the unknown name
\* leaves an empty position and the repeated name is repeated
C19_Witness ==
    /\ shown # << >>
    /\ display_fields = <<"name", "invalid", "name">>
    /\ cur.name = <<"A", "b">>
    /\ shown[1] = <<"A", "b", "|", "|", "A", "b">>

---------------------------------------------------------------------------
(* Claims about selection, checked under SpecSelect *)

\* C20: whenever select_bookmark returns a string for a non-empty list of
\* display lines, the string is exactly equal to one of the lines it was
\* given; when the user cancels or the finder fails it returns nothing.
C20_ReturnsSuppliedLine ==
    (selected # << >> /\ bookmark_lines # << >>) =>
        /\ selected[1].kind = "str" =>
              \E i \in 1..Len(bookmark_lines) : bookmark_lines[i] = selected[1].value
        /\ fzf.outcome \in {"cancelled", "error", "exception"} => selected[1] = None

---------------------------------------------------------------------------
(* Claims about the tags file, checked under SpecTags *)

Elements(xs) == {xs[i] : i \in 1..Len(xs)}

StrictlySorted(xs) == \A i, j \in 1..Len(xs) : i < j => StrLess(xs[i], xs[j])

\* the lower-cased, trimmed, non-empty tags among the strings of S
NormalTags(S) == {Lower(Strip(t)) : t \in S} \ {<< >>}

\* the lines of the strings of S
LinesOf(S) == UNION {Elements(Split(t, "\n")) : t \in S}

\* C21 as stated: after any sequence of update_tags calls read_tags returns
\* the sorted, duplicate-free list of the lower-cased, trimmed, non-empty tags
\* that were in the file before plus all tags passed so far; update_tags
\* removes no tag, and with an empty list it neither creates nor changes the
\* file.
C21_ReadTagsReturnsAllPassed ==
    /\ tagOp.name = "read_tags" =>
          /\ StrictlySorted(tagRet)
          /\ Elements(tagRet) =
                NormalTags(Elements(FileLines(tagHist.origin.content))
                           \cup tagHist.passed)
    /\ tagOp.name = "update_tags" =>
          /\ Elements(read_tags(tagPre)) \subseteq Elements(read_tags(tagsFile))
          /\ tagOp.arg = << >> => tagsFile = tagPre

\* C21, amended: the same, with every passed tag counted line by line: a tag
\* that contains a line break is stored and returned as one tag per line.
C21_ReadTagsReturnsAllPassedLines ==
    /\ tagOp.name = "read_tags" =>
          /\ StrictlySorted(tagRet)
          /\ Elements(tagRet) =
                NormalTags(Elements(FileLines(tagHist.origin.content))
                           \cup LinesOf(tagHist.passed))
    /\ tagOp.name = "update_tags" =>
          /\ Elements(read_tags(tagPre)) \subseteq Elements(read_tags(tagsFile))
          /\ tagOp.arg = << >> => tagsFile = tagPre

\* a read after two update_tags calls on a hand-written file: it returns a
\* tag of the file and tags that were passed, three at least
C21_Witness ==
    /\ tagOp.name = "read_tags"
    /\ tagHist.calls = 2
    /\ tagHist.origin.content = <<"b", "\n">>
    /\ Len(tagRet) >= 3
    /\ <<"b">> \in Elements(tagRet)
    /\ <<"a", "a">> \in Elements(tagRet)

\* update_tags with an empty list on a path without file: nothing is created
C21_WitnessEmptyList ==
    /\ tagOp = [name |-> "update_tags", arg |-> << >>]
    /\ ~tagPre.exists /\ ~tagPre.dir
    /\ tagsFile = tagPre

---------------------------------------------------------------------------
(* Claims about the configuration, checked under SpecConfig *)

DefaultKeys == {"display_fields", "browser", "default_bookmark_file"}

\* what the claims say of a file that is absent, empty, not valid YAML or a
\* mapping: the defaults, with exactly the keys of the mapping overridden
ConfigOfMappingFile ==
    config # << >> =>
        /\ configFile.state \in {"absent", "empty", "invalid"} =>
              /\ config[1].raised = "none"
              /\ DOMAIN config[1].value = DefaultKeys
              /\ config[1].value.display_fields = ListV(<<"name", "description", "url">>)
              /\ config[1].value.browser = NoneV
              /\ config[1].value.default_bookmark_file = StrV("bookmarks.txt")
        /\ (configFile.state = "document" /\ configFile.doc.type = "mapping") =>
              LET m == configFile.doc.mapping IN
              /\ config[1].raised = "none"
              /\ DOMAIN config[1].value = DefaultKeys \cup DOMAIN m
              /\ \A k \in DOMAIN m : config[1].value[k] = m[k]
              /\ \A k \in DefaultKeys \ DOMAIN m : config[1].value[k] = default_config[k]

\* C22: read_config returns the default mapping (display_fields = [name,
\* description, url], browser absent, default_bookmark_file = bookmarks.txt)
\* when the config file is absent, empty or not valid YAML, and otherwise,
\* for every valid document, the defaults with exactly the keys present in
\* the file overridden by the file's values; a document that is no mapping
\* has no keys.
C22_DefaultsOverriddenByFile ==
    /\ ConfigOfMappingFile
    /\ (config # << >> /\ configFile.state = "document"
          /\ configFile.doc.type \in {"str", "int"}) =>
              /\ config[1].raised = "none"
              /\ config[1].value = default_config

\* C28: read_config never fails: for every state of the config file (absent,
\* unreadable, empty, invalid YAML, or valid YAML of any shape, a document
\* that is not a mapping included) it returns a mapping that contains the
\* three keys display_fields, browser and default_bookmark_file.
C28_ReadConfigNeverFails ==
    config # << >> =>
        /\ config[1].raised = "none"
        /\ DefaultKeys \subseteq DOMAIN config[1].value

---------------------------------------------------------------------------
(* Claims about reads around an append, checked under Spec *)

\* the state after read_bookmarks, add_bookmark(b), read_bookmarks, with b a
\* record without '|' and line breaks
ReadAroundPlainAdd ==
    /\ AfterRead
    /\ pre.sinceRead = 1
    /\ added # << >>
    /\ PlainRecord(LastAdded)

\* C24 as stated: for any existing content of the file, hand-edited content
\* included, and any record b without '|' and line breaks, read_bookmarks
\* after add_bookmark(b) returns what read_bookmarks returned before the call,
\* followed by b.
C24_AppendKeepsReadable ==
    ReadAroundPlainAdd => ret = Append(pre.ret, LastAdded)

\* C24, amended: the same, for content that is empty or ends with a newline
\* and for a record whose name does not start with whitespace.
C24_AppendKeepsReadableTerminated ==
    (/\ ReadAroundPlainAdd
     /\ EndsLine(BeforeLastAdd)
     /\ ~HasLeadingSpace(LastAdded.name)) =>
        /\ ret = Append(pre.ret, LastAdded)
        /\ stdout = pre.stdout

\* a plain record appended to a hand-written file that holds a well-formed
\* and a malformed line: the read returns the old record and the new one
C24_Witness ==
    /\ ReadAroundPlainAdd
    /\ origin.exists
    /\ EndsLine(BeforeLastAdd)
    /\ ~HasLeadingSpace(LastAdded.name)
    /\ pre.ret # << >>
    /\ Len(ret) = Len(pre.ret) + 1
    /\ ret[Len(ret)] = LastAdded

---------------------------------------------------------------------------
(* Claims about the effect of a read on the store, checked under Spec *)

\* C30: read_bookmarks has no effect on the store: it creates neither the
\* directory nor the file and leaves the content as it is, for an absent, an
\* empty, a well-formed and a malformed file; so a read_bookmarks that follows
\* a read_bookmarks with no add_bookmark between returns the same sequence
\* and prints the same warnings.
C30_ReadLeavesStore ==
    AfterRead =>
        /\ dirExists = pre.dir
        /\ fileExists = pre.exists
        /\ content = pre.content
        /\ pre.sinceRead = 0 => (ret = pre.ret /\ stdout = pre.stdout)

\* the second of two reads of a file that holds a record and a malformed line
C30_Witness ==
    /\ AfterRead
    /\ pre.sinceRead = 0
    /\ fileExists
    /\ ret # << >>
    /\ stdout # << >>
    /\ ret = pre.ret

\* the second of two reads of a store without directory and file
C30_WitnessAbsent ==
    /\ AfterRead
    /\ pre.sinceRead = 0
    /\ ~dirExists
    /\ ~fileExists
    /\ ret = << >>

---------------------------------------------------------------------------
(* Claims about the creation workflow, checked under SpecCreator *)

\* an answer to the name prompt that is empty or contains '|'
RejectedName(e) == ~e.cancel /\ (e.text = << >> \/ Contains(e.text, "|"))

NameMessages ==
    { "Name cannot be empty.",
      "Name cannot contain pipe characters (|). Please try again." }

\* every rejected answer to the name prompt was followed by a message, and
\* after it the workflow asked for the name again
RejectedNamesAskedAgain ==
    \A i \in 1..Len(centered.typed) :
        RejectedName(centered.typed[i]) =>
            /\ Len(cout) >= i
            /\ cout[i] \in NameMessages
            /\ i = Len(centered.typed) => (cpc = "name" /\ cret = "none")

\* the answer to the name prompt the workflow went on with
AcceptedName == centered.typed[Len(centered.typed)].text

\* C23 as stated: an entered name that is empty or contains '|' is rejected
\* with a message and the name prompt is repeated, the workflow is not
\* aborted; the record create_bookmark appends has a non-empty name without
\* '|' that equals the title-cased first accepted input.
C23_NameIsTitledInput ==
    /\ RejectedNamesAskedAgain
    /\ cret = "True" =>
        /\ Len(added) = 1
        /\ added[1].name # << >>
        /\ ~Contains(added[1].name, "|")
        /\ added[1].name = Title(AcceptedName)

\* C23, amended: the same, with the name of the appended record equal to the
\* title-cased first accepted input after its surrounding whitespace was
\* removed.
C23_NameIsTitledTrimmedInput ==
    /\ RejectedNamesAskedAgain
    /\ cret = "True" =>
        /\ Len(added) = 1
        /\ added[1].name # << >>
        /\ ~Contains(added[1].name, "|")
        /\ added[1].name = Title(Strip(AcceptedName))

\* a name with a pipe was rejected, the second answer was accepted and the
\* record with its title-cased name is the last line of the file
C23_Witness ==
    /\ cret = "True"
    /\ Len(centered.typed) = 2
    /\ Contains(centered.typed[1].text, "|")
    /\ cout[1] = "Name cannot contain pipe characters (|). Please try again."
    /\ AcceptedName = <<"b", " ", "a">>
    /\ added = <<Record(<<"B", " ", "A">>, added[1].url, added[1].description,
                        added[1].tags)>>
    /\ content = cstart.content \o to_line(added[1]) \o <<"\n">>

\* the text the workflow has added to the bookmark file since it was called
AppendedText == SubSeq(content, Len(cstart.content) + 1, Len(content))

\* the bookmark file is its old content followed by exactly one line
OneLineAppended ==
    /\ Len(content) > Len(cstart.content)
    /\ SubSeq(content, 1, Len(cstart.content)) = cstart.content
    /\ AppendedText[Len(AppendedText)] = "\n"
    /\ Count(AppendedText, "\n") = 1

\* C25: create_bookmark returns True exactly when it appended exactly one
\* line to the bookmark file, the line of the record built from the answers;
\* when it returns False, after a cancelled name prompt or a rejected record,
\* nothing was appended and the old content is unchanged: the file was at
\* most created empty.
C25_TrueIffOneLineAppended ==
    /\ cret = "True" <=> OneLineAppended
    /\ cret = "True" =>
        /\ Len(added) = 1
        /\ AppendedText = to_line(added[1]) \o <<"\n">>
    /\ cret = "False" =>
        /\ content = cstart.content
        /\ added = << >>
        /\ fileExists
        /\ dirExists

\* the workflow returned True on a file that held a record: the file is the
\* old record followed by the line of the new one
C25_Witness ==
    /\ cret = "True"
    /\ cstart.content = <<"A", "|", "b", "|", "|", "\n">>
    /\ OneLineAppended
    /\ content = cstart.content \o to_line(added[1]) \o <<"\n">>

\* the name prompt was cancelled on an absent file: the workflow returned
\* False and left an empty file
C25_WitnessCancelled ==
    /\ cret = "False"
    /\ "name" \in centered.cancelled
    /\ ~cstart.exists
    /\ fileExists
    /\ content = << >>

\* C26: when the user cancels at a prompt of create_bookmark, the name, the
\* url, the description or the tags prompt, the workflow stops there,
\* create_bookmark returns False and no line is appended to the bookmark file.
C26_CancelStopsWorkflow ==
    centered.cancelled # {} =>
        /\ cpc = "done"
        /\ cret = "False"
        /\ content = cstart.content
        /\ added = << >>

---------------------------------------------------------------------------
(* Claims about the launcher, checked under SpecLaunch *)

\* launch_bookmark has returned or raised
AfterLaunch == launchRet # "none"

\* the selection step returned one of the display lines it was given
SelectionReturnedSuppliedLine ==
    /\ selected # << >>
    /\ selected[1] # None
    /\ \E i \in 1..Len(bookmark_lines) : bookmark_lines[i] = selected[1].value

\* the record the user picked in fzf or, when several records have its
\* display line, the first of them in file order
PickedBookmark == ret[IndexOf(bookmark_lines, bookmark_lines[fzf.pick], 1)]

\* C27: in launch_bookmark, when the selection step returns one of the
\* supplied display lines, the url handed to the browser is the url of the
\* bookmark the user picked (nothing is handed over for an empty url); when
\* several bookmarks have the same display line, it is the url of the first
\* of them in file order; no url is launched when the selection is cancelled
\* or the list of bookmarks is empty.
C27_LaunchesPickedUrl ==
    AfterLaunch =>
        /\ (fzf.outcome = "selected" /\ SelectionReturnedSuppliedLine) =>
               launched = IF PickedBookmark.url = << >> THEN << >>
                          ELSE <<PickedBookmark.url>>
        /\ (fzf.outcome = "cancelled" \/ ret = << >>) => launched = << >>

\* the launcher resolves the selection of a display line that is not empty
\* and has no whitespace at its ends
LaunchOfTrimmedLine ==
    AfterLaunch =>
        /\ (/\ fzf.outcome = "selected"
            /\ bookmark_lines[fzf.pick] # << >>
            /\ Strip(bookmark_lines[fzf.pick]) = bookmark_lines[fzf.pick]) =>
               launched = IF PickedBookmark.url = << >> THEN << >>
                          ELSE <<PickedBookmark.url>>
        /\ (fzf.outcome = "cancelled" \/ ret = << >>) => launched = << >>

\* the second of two records with the same display line was picked and the
\* url of the first was launched
LaunchOfDuplicateLine ==
    /\ AfterLaunch
    /\ fzf = [outcome |-> "selected", pick |-> 2]
    /\ bookmark_lines[1] = bookmark_lines[2]
    /\ ret[1].url # ret[2].url
    /\ launched = <<ret[1].url>>

---------------------------------------------------------------------------
(* Claims about concurrent update_tags calls, checked under SpecRace *)

BothDone == \A p \in Procs : procs.proc[p].pc = "done"

\* the tags in the file now, and before the two calls
FinalTags == Elements(read_tags(tagsFile))
TagsBefore == Elements(read_tags(tagHist.origin))

\* the tags process p passed, as update_tags stores them
PassedBy(p) == NormalTags(Elements(procs.proc[p].new_tags))

\* position of a step of process p in the order of steps, 0 when p has not
\* taken it
StepPos(p, step) ==
    LET at == {i \in 1..Len(procs.order) :
                  procs.order[i] = [p |-> p, step |-> step]}
    IN IF at = {} THEN 0 ELSE CHOOSE i \in at : TRUE

\* process q wrote between the read and the write of process p
WroteBetween(q, p) ==
    /\ StepPos(q, "write") > StepPos(p, "read")
    /\ StepPos(q, "write") < StepPos(p, "write")

\* the process whose write was the last step on the file
WroteLast(p) ==
    /\ StepPos(p, "write") > 0
    /\ \A q \in Procs : StepPos(q, "write") <= StepPos(p, "write")

C29_WitnessSerial ==
    /\ BothDone
    /\ Len(procs.order) = 4
    /\ procs.order[2].step = "write"
    /\ PassedBy(1) # PassedBy(2)
    /\ FinalTags = TagsBefore \cup PassedBy(1) \cup PassedBy(2)
    /\ ~(PassedBy(1) \subseteq TagsBefore \cup PassedBy(2))

====
